---- MODULE Spec2Model ----
(***************************************************************************)
(* ToneTracker: the reactive state manager (src/js/stateManager.js), the   *)
(* persistence store (src/js/storage.js) and the game session              *)
(* (src/js/state.js, src/js/game.js) as state machines.                    *)
(*                                                                         *)
(* Conventions of the translation from JavaScript:                         *)
(*  - an object is a record (a function over its own property names), so   *)
(*    "f in obj" is f \in DOMAIN obj and obj[f] = v on a new name extends  *)
(*    the domain (Put);                                                    *)
(*  - every field keeps one TLA+ type: null of a string-valued field is    *)
(*    the string Null, so typeof checks are carried by the typing and the  *)
(*    invalid inputs are the same-typed ones (a negative score, an unknown *)
(*    difficulty);                                                         *)
(*  - a dot-notation path is split by the table split;                     *)
(*  - a function that may throw returns a record with an ok field;         *)
(*  - an object identity is a number: every deepClone allocates a fresh    *)
(*    tree, and every object of one tree shares the tree's number.         *)
(* The snapshot is projected on the fields the reducer branches on; the    *)
(* fields left out (startTime, round, averageTime, the ui toggles, the     *)
(* user statistics other than the two counters) are copied unchanged by    *)
(* every operation.                                                        *)
(***************************************************************************)
EXTENDS Integers, Sequences, FiniteSets, TLC

\* maxHistory is 50 in the source (stateManager.js:157); the model scales it
\* down so that eviction happens within the explored depth.
maxHistory == 2
\* operations (dispatch, timeTravel, importState) explored per StateManager
MaxOps == 4
\* operations explored on a StateManager that has subscribers
MaxNotifyOps == 2
\* subscriptions per StateManager
MaxSubs == 2
\* middlewares per StateManager
MaxMiddlewares == 1
\* operations explored per StorageManager
MaxStoreOps == 2
\* callbacks per key of a StorageManager
MaxListeners == 2
\* migrateData calls explored per StorageManager
MaxMigrations == 2
\* snapshots callers keep
MaxHeld == 2
MaxUnsubscribers == 3
\* operations on the store in the specification of imports
MaxImportOps == 2
\* addHighScore calls explored per StorageManager
MaxScoreOps == 3
\* rounds started per game session
MaxRounds == 2
\* wrong guesses followed per active round
MaxGuesses == 3
\* the last second of the clock in a game session
MaxTime == 5

Null == "null"

VARIABLES
  _state,         \* StateManager._state: the current snapshot
  _stateRef,      \* identity of the object tree held in _state
  _subscribers,   \* StateManager._subscribers: paths in insertion order, each with its callbacks
  _middlewares,   \* StateManager._middlewares
  _isReplaying,   \* StateManager._isReplaying
  now,            \* the clock (Date / performance.now), in ticks
  smOps,          \* operations performed on the StateManager
  smLast,         \* the last StateManager operation and its argument
  smThrew,        \* whether the last operation threw to its caller
  smPrev,         \* the snapshot before the last operation
  smPrevRef,      \* identity of the tree held before the last operation
  smCalls,        \* the subscriber callbacks invoked by the last operation, in order
  held            \* the snapshots getState() and dispatch() returned that callers keep

smVars == <<_state, _stateRef, _subscribers, _middlewares, _isReplaying,
            smOps, smLast, smThrew, smPrev, smPrevRef, smCalls, held>>

VARIABLES
  isSupported,    \* StorageManager.isSupported
  localStorage,   \* the backend: the keys present, each with its text
  cache,          \* StorageManager.cache
  listeners,      \* StorageManager.listeners: per key, the callbacks in insertion order
  DEFAULTS,       \* the module's default documents (their nested objects are shared)
  aliased,        \* the cached keys whose document shares its nested objects with DEFAULTS
  storeOps,       \* operations performed on the StorageManager
  stLast,         \* the last StorageManager operation and its arguments
  stThrew,        \* whether the last operation threw to its caller
  stPrev,         \* cache and backend before the last operation
  stCalls,        \* the listener callbacks invoked by the last operation, in order,
                  \* each with what it was given and what it read with get()
  unsubscribers   \* the unsubscribe functions subscribe() returned that a caller
                  \* keeps: each with its key, its callback, and whether it was called

storeVars == <<isSupported, localStorage, cache, listeners, DEFAULTS, aliased,
               storeOps, stLast, stThrew, stPrev, stCalls, unsubscribers>>

\* the game session (src/js/state.js, src/js/game.js): the state object, the
\* pending setTimeout callbacks in firing order, the live setInterval ids, the
\* last timer id handed out, the number of rounds started, the activations
\* that have run, the last startGame or activation, and of the round that is
\* or was last active the difficulty it became active at and the wrong guesses
\* made in it
VARIABLES gameState, timeouts, intervals, timerIds, rounds, activated, gameLast,
          activeRound

gameVars == <<gameState, timeouts, intervals, timerIds, rounds, activated, gameLast,
              activeRound>>

vars == <<now, smVars, storeVars, gameVars>>

\* ------------------------------------------------------------ objects

Has(obj, f) == f \in DOMAIN obj

Put(obj, f, v) == [k \in (DOMAIN obj) \cup {f} |-> IF k = f THEN v ELSE obj[k]]

Max(a, b) == IF a >= b THEN a ELSE b

\* String.prototype.split('.') on the paths the model uses
split(path) ==
  CASE path = "game" -> <<"game">>
    [] path = "game.score" -> <<"game", "score">>
    [] path = "game.isActive" -> <<"game", "isActive">>
    [] path = "ui" -> <<"ui">>
    [] path = "ui.theme" -> <<"ui", "theme">>
    [] path = "ui.feedback" -> <<"ui", "feedback">>
    [] path = "ui.feedback.message" -> <<"ui", "feedback", "message">>
    [] path = "theme" -> <<"theme">>
    [] path = "feedback" -> <<"feedback">>
    [] path = "feedback.message" -> <<"feedback", "message">>
    [] path = "modal.title" -> <<"modal", "title">>
    [] OTHER -> <<path>>

\* the paths of the snapshot that resolve to an object (typeof v === 'object')
ObjectPaths == {"game", "ui", "ui.feedback", "user", "system", "history"}

\* ------------------------------------------------------------ snapshot

initialState ==
  [ game |-> [ generatedColor |-> Null, score |-> 0, tipCount |-> 0,
               computerTipCount |-> 0, isActive |-> FALSE, difficulty |-> "easy",
               streak |-> 0, bestStreak |-> 0, totalGamesPlayed |-> 0,
               correctGuesses |-> 0 ],
    ui |-> [ theme |-> "dark",
             feedback |-> [ message |-> "", type |-> "info", visible |-> FALSE ] ],
    user |-> [ preferences |-> [ preferredDifficulty |-> "easy", colorFormat |-> "hex" ],
               statistics |-> [ gamesPlayed |-> 0, gamesWon |-> 0 ] ],
    system |-> [ lastUpdated |-> 0,
                 performance |-> [ stateUpdateTime |-> 0 ],
                 errors |-> <<>> ],
    history |-> [ states |-> <<>>, currentIndex |-> -1, maxHistory |-> maxHistory ] ]

requiredFields == {"game", "ui", "user", "system", "history"}

gameValidation(field, val) ==
  CASE field = "score" -> val >= 0
    [] field = "tipCount" -> val >= 0
    [] field = "computerTipCount" -> val >= 0
    [] field = "isActive" -> val \in BOOLEAN
    [] field = "difficulty" -> val \in {"easy", "medium", "hard"}
    [] OTHER -> TRUE

\* validateState with the score rule dropped
validateState_noScore(state) ==
  /\ \A field \in requiredFields : Has(state, field)
  /\ \A field \in DOMAIN state.game :
       field = "score" \/ gameValidation(field, state.game[field])

\* TRUE iff validateState returns without throwing
validateState(state) ==
  /\ \A field \in requiredFields : Has(state, field)
  /\ \A field \in DOMAIN state.game : gameValidation(field, state.game[field])

\* ------------------------------------------------------------ reducer

\* target[parts[0]]...[parts[n-1]] = value (SET_UI_FIELD's walk): a TypeError
\* when an intermediate property is undefined
RECURSIVE SetNested(_, _, _)
SetNested(target, parts, value) ==
  IF Len(parts) = 1
  THEN [ok |-> TRUE, val |-> Put(target, parts[1], value)]
  ELSE IF ~Has(target, parts[1])
       THEN [ok |-> FALSE, val |-> target]
       ELSE LET r == SetNested(target[parts[1]], Tail(parts), value)
            IN  [ok |-> r.ok,
                 val |-> IF r.ok THEN [target EXCEPT ![parts[1]] = r.val] ELSE target]

\* a.slice(-n)
LastN(a, n) == IF Len(a) <= n THEN a ELSE SubSeq(a, Len(a) - n + 1, Len(a))

maxErrors == 20

\* StateManager._reducer at clock t: ok is FALSE when it throws
_reducer(state, action, t) ==
  LET payload == IF Has(action, "payload") THEN action.payload ELSE <<>>
      stamped(s) == [ok |-> TRUE, state |-> [s EXCEPT !.system.lastUpdated = t]]
      thrown == [ok |-> FALSE, state |-> state]
      g == state.game
  IN
  CASE action.type = "RESET_STATE" ->
         [ok |-> TRUE, state |-> initialState]
    [] action.type = "SET_GAME_FIELD" ->
         IF ~Has(payload, "field") THEN thrown
         ELSE stamped([state EXCEPT !.game = Put(g, payload.field, payload.value)])
    [] action.type = "UPDATE_SCORE" ->
         stamped([state EXCEPT !.game.score =
                    Max(0, g.score + (IF Has(payload, "delta") THEN payload.delta ELSE 0))])
    [] action.type = "START_GAME" ->
         stamped([state EXCEPT !.game =
           [g EXCEPT
              !.isActive = TRUE,
              !.generatedColor =
                 IF Has(payload, "color") /\ payload.color # "" THEN payload.color ELSE Null,
              !.tipCount =
                 IF Has(payload, "tipCount") /\ payload.tipCount # 0
                 THEN payload.tipCount ELSE 3,
              !.computerTipCount =
                 IF Has(payload, "computerTipCount") /\ payload.computerTipCount # 0
                 THEN payload.computerTipCount ELSE 3]])
    [] action.type = "END_GAME" ->
         LET won == Has(payload, "won") /\ payload.won
             streak == IF won THEN g.streak + 1 ELSE 0
         IN stamped([state EXCEPT
              !.game = [g EXCEPT
                 !.isActive = FALSE,
                 !.totalGamesPlayed = @ + 1,
                 !.correctGuesses = IF won THEN @ + 1 ELSE @,
                 !.streak = streak,
                 !.bestStreak = IF won THEN Max(@, streak) ELSE @],
              !.user.statistics.gamesPlayed = @ + 1,
              !.user.statistics.gamesWon = IF won THEN @ + 1 ELSE @])
    [] action.type = "SET_UI_FIELD" ->
         IF ~Has(payload, "field") THEN thrown
         ELSE LET r == SetNested(state.ui, split(payload.field), payload.value)
              IN  IF r.ok THEN stamped([state EXCEPT !.ui = r.val]) ELSE thrown
    [] action.type = "SET_USER_PREFERENCE" ->
         IF ~Has(payload, "key") THEN thrown
         ELSE stamped([state EXCEPT !.user.preferences =
                         Put(state.user.preferences, payload.key, payload.value)])
    [] action.type = "ADD_ERROR" ->
         stamped([state EXCEPT !.system.errors =
                    LastN(Append(@, Put(payload, "timestamp", t)), maxErrors)])
    [] OTHER -> stamped(state)

\* ------------------------------------------------------------ history

\* a.slice(0, n) for n >= 0 (splice(n) keeps these)
FirstN(a, n) == IF n >= Len(a) THEN a ELSE SubSeq(a, 1, n)

\* _addToHistory evicting the newest entry instead of the oldest
_addToHistory_evictNewest(state, action, t) ==
  LET historyEntry == [state |-> state, action |-> action, timestamp |-> t]
      h == state.history
      kept == IF h.currentIndex < Len(h.states) - 1
              THEN FirstN(h.states, h.currentIndex + 1) ELSE h.states
      pushed == Append(kept, historyEntry)
      newHistory == IF Len(pushed) > h.maxHistory
                    THEN SubSeq(pushed, 1, Len(pushed) - 1) ELSE pushed
  IN IF ~Has(h, "states") THEN [ok |-> FALSE, state |-> state]
     ELSE [ok |-> TRUE,
           state |-> [state EXCEPT !.history.states = newHistory,
                                   !.history.currentIndex = Len(newHistory) - 1]]

\* _addToHistory that leaves currentIndex on a full history where it was
_addToHistory_staleIndex(state, action, t) ==
  LET historyEntry == [state |-> state, action |-> action, timestamp |-> t]
      h == state.history
      kept == IF h.currentIndex < Len(h.states) - 1
              THEN FirstN(h.states, h.currentIndex + 1) ELSE h.states
      pushed == Append(kept, historyEntry)
      newHistory == IF Len(pushed) > h.maxHistory THEN Tail(pushed) ELSE pushed
  IN IF ~Has(h, "states") THEN [ok |-> FALSE, state |-> state]
     ELSE [ok |-> TRUE,
           state |-> [state EXCEPT !.history.states = newHistory,
                                   !.history.currentIndex = h.currentIndex + 1]]

\* StateManager._addToHistory(state, action) at clock t. The entry holds a deep
\* clone of state as it is on entry, that is with the history it had before
\* this entry; state is then updated in place (the result). ok is FALSE when
\* it throws (spreading history.states of a history that has none).
_addToHistory(state, action, t) ==
  LET historyEntry == [state |-> state, action |-> action, timestamp |-> t]
      h == state.history
      kept == IF h.currentIndex < Len(h.states) - 1
              THEN FirstN(h.states, h.currentIndex + 1) ELSE h.states
      pushed == Append(kept, historyEntry)
      newHistory == IF Len(pushed) > h.maxHistory THEN Tail(pushed) ELSE pushed
  IN IF ~Has(h, "states") THEN [ok |-> FALSE, state |-> state]
     ELSE [ok |-> TRUE,
           state |-> [state EXCEPT !.history.states = newHistory,
                                   !.history.currentIndex = Len(newHistory) - 1]]

\* ------------------------------------------------------------ subscribers

RECURSIVE Resolves(_, _)
\* whether the walk of _getNestedValue ends on a defined value
Resolves(obj, parts) ==
  parts = <<>> \/ (Has(obj, parts[1]) /\ Resolves(obj[parts[1]], Tail(parts)))

RECURSIVE _getNestedValue(_, _)
\* StateManager._getNestedValue where the path resolves
_getNestedValue(obj, parts) ==
  IF parts = <<>> THEN obj ELSE _getNestedValue(obj[parts[1]], Tail(parts))

\* currentValue !== previousValue: identity for objects, value for primitives
differs(previousState, prevRef, newState, newRef, path) ==
  LET parts == split(path)
      pd == Resolves(previousState, parts)
      nd == Resolves(newState, parts)
  IN IF ~pd \/ ~nd THEN pd # nd
     ELSE IF path \in ObjectPaths THEN prevRef # newRef
     ELSE _getNestedValue(previousState, parts) # _getNestedValue(newState, parts)

RECURSIVE Flatten(_)
\* the callbacks of the given path groups, in iteration order
Flatten(groups) ==
  IF groups = <<>> THEN <<>>
  ELSE [i \in 1..Len(groups[1].subs) |->
          [path |-> groups[1].path, id |-> groups[1].subs[i].id,
           behaviour |-> groups[1].subs[i].behaviour]]
       \o Flatten(Tail(groups))

\* _notifySubscribers without the try/catch around each callback
_notifySubscribers_noCatch(subscribers, previousState, prevRef, newState, newRef) ==
  LET notified(group) ==
        group.path = "*" \/ differs(previousState, prevRef, newState, newRef, group.path)
      due == Flatten(SelectSeq(subscribers, notified))
      throwers == {i \in 1..Len(due) : due[i].behaviour = "throws"}
      first == CHOOSE i \in throwers : \A j \in throwers : i <= j
      ran == IF throwers = {} THEN due ELSE SubSeq(due, 1, first)
  IN [calls |-> [i \in 1..Len(ran) |-> [path |-> ran[i].path, id |-> ran[i].id]],
      threw |-> throwers # {}]

\* StateManager._notifySubscribers: the callbacks invoked, in order, and whether
\* an exception leaves it (each callback runs in its own try/catch; logError
\* returns normally)
_notifySubscribers(subscribers, previousState, prevRef, newState, newRef) ==
  LET notified(group) ==
        group.path = "*" \/ differs(previousState, prevRef, newState, newRef, group.path)
      due == Flatten(SelectSeq(subscribers, notified))
  IN [calls |-> [i \in 1..Len(due) |-> [path |-> due[i].path, id |-> due[i].id]],
      threw |-> FALSE]

\* ------------------------------------------------------------ dispatch

\* the middleware functions the model installs: a guard that rejects
\* UPDATE_SCORE by throwing, and a logger that returns the action as it is
middleware(kind, action, state) ==
  CASE kind = "guard" -> [ok |-> action.type # "UPDATE_SCORE", action |-> action]
    [] OTHER -> [ok |-> TRUE, action |-> action]

RECURSIVE runMiddlewares(_, _, _)
\* dispatch's loop over this._middlewares
runMiddlewares(mws, action, state) ==
  IF mws = <<>> THEN [ok |-> TRUE, action |-> action]
  ELSE LET m == middleware(mws[1], action, state)
       IN  IF m.ok THEN runMiddlewares(Tail(mws), m.action, state)
           ELSE [ok |-> FALSE, action |-> action]

\* commit that archives the snapshot being replaced
commit_archivePrevious(previousState, newState, processedAction, replaying, t, dt) ==
  LET h == IF ~replaying
           THEN LET a == _addToHistory(previousState, processedAction, t)
                IN  [ok |-> a.ok,
                     state |-> [newState EXCEPT !.history = a.state.history]]
           ELSE [ok |-> TRUE, state |-> newState]
  IN IF ~h.ok THEN h
     ELSE [ok |-> TRUE,
           state |-> [h.state EXCEPT !.system.performance.stateUpdateTime = dt]]

\* dispatch after validation: newState becomes current, is added to the history
\* (unless replaying) and gets its stateUpdateTime (dt: the time the dispatch took)
commit(previousState, newState, processedAction, replaying, t, dt) ==
  LET h == IF ~replaying THEN _addToHistory(newState, processedAction, t)
           ELSE [ok |-> TRUE, state |-> newState]
  IN IF ~h.ok THEN h
     ELSE [ok |-> TRUE,
           state |-> [h.state EXCEPT !.system.performance.stateUpdateTime = dt]]

\* StateManager.dispatch(action): what it leaves behind
dispatch(action, dt) ==
  LET failed == [threw |-> TRUE, state |-> _state, ref |-> _stateRef, calls |-> <<>>]
  IN
  IF ~Has(action, "type") THEN failed
  ELSE LET m == runMiddlewares(_middlewares, action, _state) IN
  IF ~m.ok THEN failed
  ELSE LET r == _reducer(_state, m.action, now) IN
  IF ~r.ok THEN failed
  ELSE IF ~validateState(r.state) THEN failed
  ELSE LET c == commit(_state, r.state, m.action, _isReplaying, now, dt)
           newRef == _stateRef + 1
       IN
  IF ~c.ok THEN [threw |-> TRUE, state |-> c.state, ref |-> newRef, calls |-> <<>>]
  ELSE LET n == _notifySubscribers(_subscribers, _state, _stateRef, c.state, newRef)
       IN  [threw |-> n.threw, state |-> c.state, ref |-> newRef, calls |-> n.calls]

\* what a "dispatches" callback does when it is called for a transition: on a
\* change of the score it dispatches a message for the feedback line, and
\* otherwise nothing (so its own dispatch does not make it dispatch again)
FollowUp ==
  [type |-> "SET_UI_FIELD", payload |-> [field |-> "feedback.message", value |-> "hi"]]

Reacts(cb, previousState, newState) ==
  /\ cb.behaviour = "dispatches"
  /\ cb.path = "*"
  /\ newState.game.score # previousState.game.score

RECURSIVE dispatchIn(_, _, _, _)
RECURSIVE notifyFrom(_, _, _, _, _, _)
\* the loops of _notifySubscribers from the callback due[1] on, for the
\* transition to newState (commit number newRef). store is the manager's
\* _state and its commit number as they are when the callback is called: a
\* callback that dispatches changes them before the next callback is called
\* with the same newState. A throw of the dispatch inside a callback ends in
\* the catch around the callback. calls: the callbacks invoked, in order, each
\* with the commit number of the snapshot it was handed.
notifyFrom(due, store, previousState, newState, newRef, t) ==
  IF due = <<>> THEN [store |-> store, calls |-> <<>>]
  ELSE LET call == [path |-> due[1].path, id |-> due[1].id, ref |-> newRef]
           inner == IF Reacts(due[1], previousState, newState)
                    THEN dispatchIn(store, FollowUp, 1, t)
                    ELSE [store |-> store, threw |-> FALSE, calls |-> <<>>]
           rest == notifyFrom(Tail(due), inner.store, previousState, newState, newRef, t)
       IN  [store |-> rest.store, calls |-> <<call>> \o inner.calls \o rest.calls]

\* StateManager.dispatch(action) on the manager as store gives it, with the
\* callbacks' own dispatches
dispatchIn(store, action, dt, t) ==
  LET failed == [store |-> store, threw |-> TRUE, calls |-> <<>>]
  IN
  IF ~Has(action, "type") THEN failed
  ELSE LET m == runMiddlewares(_middlewares, action, store.state) IN
  IF ~m.ok THEN failed
  ELSE LET r == _reducer(store.state, m.action, t) IN
  IF ~r.ok THEN failed
  ELSE IF ~validateState(r.state) THEN failed
  ELSE LET c == commit(store.state, r.state, m.action, _isReplaying, t, dt)
           newRef == store.ref + 1
           committed == [state |-> c.state, ref |-> newRef]
           notified(group) ==
             group.path = "*" \/ differs(store.state, store.ref, c.state, newRef, group.path)
       IN
  IF ~c.ok THEN [store |-> committed, threw |-> TRUE, calls |-> <<>>]
  ELSE LET n == notifyFrom(Flatten(SelectSeq(_subscribers, notified)), committed,
                           store.state, c.state, newRef, t)
       IN  [store |-> n.store, threw |-> FALSE, calls |-> n.calls]

\* a getState that hands out the manager's own object
getState_sameObject(state, ref, id) ==
  [ref |-> ref, value |-> state, was |-> state, frozen |-> FALSE]

\* StateManager.getState() where _state is state, the object tree ref:
\* deepFreeze(deepClone(this._state)). The clone is a new object tree (identity
\* id) with the values of state, and every object of it is frozen; was keeps
\* what the caller was handed.
getState(state, ref, id) ==
  [ref |-> id, value |-> state, was |-> state, frozen |-> TRUE]

\* timeTravel that forgets to set currentIndex
timeTravel_keepIndex(index) ==
  IF ~Has(_state.history, "states")
     \/ index < 0 \/ index >= Len(_state.history.states)
  THEN [threw |-> TRUE, state |-> _state, ref |-> _stateRef, calls |-> <<>>,
        replaying |-> FALSE]
  ELSE LET targetState == _state.history.states[index + 1]
           newState == targetState.state
           newRef == _stateRef + 1
           n == _notifySubscribers(_subscribers, _state, _stateRef, newState, newRef)
       IN  [threw |-> n.threw, state |-> newState, ref |-> newRef, calls |-> n.calls,
            replaying |-> n.threw]

\* timeTravel that takes the nearest entry for an index out of range
timeTravel_nearestEntry(index) ==
  IF ~Has(_state.history, "states") \/ _state.history.states = <<>>
  THEN [threw |-> TRUE, state |-> _state, ref |-> _stateRef, calls |-> <<>>,
        replaying |-> FALSE]
  ELSE LET nearest == IF index < 0 THEN 0
                      ELSE IF index >= Len(_state.history.states)
                      THEN Len(_state.history.states) - 1 ELSE index
           targetState == _state.history.states[nearest + 1]
           newState == [targetState.state EXCEPT !.history.currentIndex = nearest]
           newRef == _stateRef + 1
           n == _notifySubscribers(_subscribers, _state, _stateRef, newState, newRef)
       IN  [threw |-> n.threw, state |-> newState, ref |-> newRef, calls |-> n.calls,
            replaying |-> n.threw]

\* StateManager.timeTravel(index)
timeTravel(index) ==
  IF ~Has(_state.history, "states")
     \/ index < 0 \/ index >= Len(_state.history.states)
  THEN [threw |-> TRUE, state |-> _state, ref |-> _stateRef, calls |-> <<>>,
        replaying |-> FALSE]
  ELSE LET targetState == _state.history.states[index + 1]
           newState == [targetState.state EXCEPT !.history.currentIndex = index]
           newRef == _stateRef + 1
           n == _notifySubscribers(_subscribers, _state, _stateRef, newState, newRef)
       IN  [threw |-> n.threw, state |-> newState, ref |-> newRef, calls |-> n.calls,
            replaying |-> n.threw]

\* StateManager.exportState(): the JSON text, as the value it decodes to
exportState(t) ==
  [valid |-> TRUE, value |-> [_state EXCEPT !.system = Put(@, "exportedAt", t)]]

\* StateManager.importState(stateJson)
importState(stateJson) ==
  LET failed == [threw |-> TRUE, state |-> _state, ref |-> _stateRef]
  IN
  IF ~stateJson.valid THEN failed
  ELSE LET importedState == stateJson.value IN
  IF ~validateState(importedState) THEN failed
  ELSE LET a == _addToHistory(importedState, [type |-> "IMPORT_STATE"], now)
       IN  [threw |-> ~a.ok, state |-> a.state, ref |-> _stateRef + 1]

\* ------------------------------------------------------------ persistence store

STORAGE_KEYS ==
  [ GAME_STATISTICS |-> "tonetracker_game_stats",
    USER_PREFERENCES |-> "tonetracker_user_prefs",
    HIGH_SCORES |-> "tonetracker_high_scores" ]

\* the ad hoc key main.js writes from the difficulty selector
CURRENT_DIFFICULTY == "current_difficulty"

SCHEMA_VERSION == 1

\* maxScores is 100 in the source (storage.js:92) and the accuracy history
\* keeps 50 values (storage.js:386); the model scales both down.
maxScores == 2
MaxAccuracyHistory == 2

\* Timestamps are clock ticks, from 1 on; 0 stands for null (both are falsy
\* where the source tests them with !).
DEFAULT_GAME_STATISTICS ==
  [ version |-> SCHEMA_VERSION, totalGames |-> 0, gamesWon |-> 0, gamesLost |-> 0,
    totalScore |-> 0, bestScore |-> 0, averageScore |-> 0, totalTimeSpent |-> 0,
    averageTime |-> 0, bestTime |-> 0, currentStreak |-> 0, bestStreak |-> 0,
    difficultyCounts |->
      [ easy |-> [played |-> 0, won |-> 0, totalScore |-> 0],
        medium |-> [played |-> 0, won |-> 0, totalScore |-> 0],
        hard |-> [played |-> 0, won |-> 0, totalScore |-> 0] ],
    colorAccuracyHistory |-> <<>>,
    sessionStats |-> [startTime |-> 0, gamesPlayed |-> 0, gamesWon |-> 0],
    lastPlayed |-> 0, updatedAt |-> 1 ]

DEFAULT_HIGH_SCORES ==
  [ version |-> SCHEMA_VERSION, scores |-> <<>>, maxScores |-> maxScores, updatedAt |-> 1 ]

\* the element of a singleton: Only({e(x) : x \in {v}}) is e with x bound to the
\* value of v, the way a const declaration binds the result of a call
Only(S) == CHOOSE x \in S : TRUE

Drop(obj, f) == [k \in (DOMAIN obj) \ {f} |-> obj[k]]

\* JSON.stringify(value): the text, as the value it decodes to. The documents of
\* the model hold numbers, strings, booleans, arrays and objects only, which
\* JSON.parse gives back as they were.
stringify(value) == [valid |-> TRUE, value |-> value]

\* the StorageManager's mutable state, as one record
Store ==
  [ isSupported |-> isSupported, localStorage |-> localStorage, cache |-> cache,
    listeners |-> listeners, DEFAULTS |-> DEFAULTS, aliased |-> aliased ]

\* StorageManager.get(key, defaultValue): the value, where it came from, and
\* the store (a read from the backend fills the cache)
get(st, key, defaultValue) ==
  LET default == [value |-> defaultValue, from |-> "default", st |-> st]
  IN
  IF ~st.isSupported THEN default
  ELSE IF Has(st.cache, key) THEN [value |-> st.cache[key], from |-> "cache", st |-> st]
  ELSE IF ~Has(st.localStorage, key) THEN default
  ELSE IF ~st.localStorage[key].valid THEN default
  ELSE [value |-> st.localStorage[key].value, from |-> "backend",
        st |-> [st EXCEPT !.cache = Put(@, key, st.localStorage[key].value),
                          !.aliased = @ \ {key}]]

\* getGameStatistics(): the default is a shallow copy of DEFAULT_GAME_STATISTICS
getGameStatistics(st) ==
  get(st, STORAGE_KEYS.GAME_STATISTICS, st.DEFAULTS.GAME_STATISTICS)

\* getHighScores(): the default is a shallow copy of DEFAULT_HIGH_SCORES
getHighScores(st) ==
  get(st, STORAGE_KEYS.HIGH_SCORES, st.DEFAULTS.HIGH_SCORES)

\* what a listener callback does with (value, key): it reads the statistics and
\* the high scores with the store's getters, and a "throws" callback then throws
callback(st, cb, key, value) ==
  Only({ Only({ [st |-> h.st,
                 call |-> [callback |-> cb, key |-> key, value |-> value,
                           got |-> get(st, key, Null).value,
                           inBackend |-> Has(st.localStorage, key),
                           inCache |-> Has(st.cache, key),
                           stats |-> g.value, scores |-> h.value.scores]]
                : h \in {getHighScores(g.st)} })
         : g \in {getGameStatistics(st)} })

RECURSIVE notifyEach(_, _, _, _)
notifyEach(st, cbs, key, value) ==
  IF cbs = <<>> THEN [st |-> st, calls |-> <<>>]
  ELSE Only({ Only({ [st |-> rest.st, calls |-> <<c.call>> \o rest.calls]
                     : rest \in {notifyEach(c.st, Tail(cbs), key, value)} })
              : c \in {callback(st, cbs[1], key, value)} })

\* StorageManager.notifyListeners(key, value): each callback runs in its own
\* try/catch
notifyListeners(st, key, value) ==
  IF ~Has(st.listeners, key) THEN [st |-> st, calls |-> <<>>, threw |-> FALSE]
  ELSE Only({ [st |-> n.st, calls |-> n.calls, threw |-> FALSE]
              : n \in {notifyEach(st, st.listeners[key], key, value)} })

\* set that notifies the listeners before it writes
set_notifyFirst(st, key, value, shared, rejects) ==
  IF ~st.isSupported THEN [st |-> st, result |-> "false", calls |-> <<>>]
  ELSE IF key \in rejects THEN [st |-> st, result |-> "throw", calls |-> <<>>]
  ELSE Only({ [st |-> [n.st EXCEPT !.localStorage = Put(@, key, stringify(value)),
                                   !.cache = Put(@, key, value),
                                   !.aliased = IF shared THEN @ \cup {key} ELSE @ \ {key}],
               result |-> "true", calls |-> n.calls]
              : n \in {notifyListeners(st, key, value)} })

\* set that updates the cache before it writes to the backend
set_cacheFirst(st, key, value, shared, rejects) ==
  IF ~st.isSupported THEN [st |-> st, result |-> "false", calls |-> <<>>]
  ELSE Only({ IF key \in rejects THEN [st |-> cached, result |-> "throw", calls |-> <<>>]
              ELSE Only({ [st |-> n.st, result |-> IF n.threw THEN "throw" ELSE "true",
                           calls |-> n.calls]
                          : n \in {notifyListeners(
                                     [cached EXCEPT !.localStorage = Put(@, key, stringify(value))],
                                     key, value)} })
              : cached \in {[st EXCEPT !.cache = Put(@, key, value),
                                       !.aliased = IF shared THEN @ \cup {key}
                                                   ELSE @ \ {key}]} })

\* StorageManager.set(key, value). rejects: the keys whose setItem throws;
\* shared: whether value shares its nested objects with DEFAULTS.
\* result: "true", "false" (no backend), or "throw"
set(st, key, value, shared, rejects) ==
  IF ~st.isSupported THEN [st |-> st, result |-> "false", calls |-> <<>>]
  ELSE IF key \in rejects THEN [st |-> st, result |-> "throw", calls |-> <<>>]
  ELSE Only({ Only({ [st |-> n.st, result |-> IF n.threw THEN "throw" ELSE "true",
                      calls |-> n.calls]
                     : n \in {notifyListeners(written, key, value)} })
              : written \in {[st EXCEPT !.localStorage = Put(@, key, stringify(value)),
                                        !.cache = Put(@, key, value),
                                        !.aliased = IF shared THEN @ \cup {key}
                                                    ELSE @ \ {key}]} })

\* StorageManager.remove(key): removeItem does not fail in the model
remove(st, key) ==
  IF ~st.isSupported THEN [st |-> st, calls |-> <<>>]
  ELSE Only({ Only({ [st |-> n.st, calls |-> n.calls]
                     : n \in {notifyListeners(removed, key, Null)} })
              : removed \in {[st EXCEPT !.localStorage = Drop(@, key),
                                        !.cache = Drop(@, key),
                                        !.aliased = @ \ {key}]} })

\* Math.round(a / b) for a >= 0, b > 0
RoundDiv(a, b) == (2 * a + b) \div (2 * b)

\* the comparator of addHighScore: a sorts strictly before b
sortsBefore(a, b) == a.score > b.score \/ (a.score = b.score /\ a.time < b.time)

RECURSIVE insertScore(_, _)
insertScore(sorted, e) ==
  IF sorted = <<>> THEN <<e>>
  ELSE IF sortsBefore(e, sorted[1]) THEN <<e>> \o sorted
  ELSE <<sorted[1]>> \o insertScore(Tail(sorted), e)

RECURSIVE sortScores(_)
\* Array.prototype.sort with the comparator (a stable sort)
sortScores(a) ==
  IF a = <<>> THEN <<>>
  ELSE Only({ insertScore(sorted, a[Len(a)])
              : sorted \in {sortScores(SubSeq(a, 1, Len(a) - 1))} })

\* whether the document get() returned shares its nested objects with DEFAULTS
SharesDefaults(g, key) == g.from = "default" \/ (g.from = "cache" /\ key \in g.st.aliased)

\* StorageManager.addHighScore(scoreData) at clock t. The push and the sort
\* change the scores array in place: the array of the cached document, and of
\* DEFAULT_HIGH_SCORES when the document is the default's shallow copy.
addHighScore(st, scoreData, t, rejects) ==
  LET key == STORAGE_KEYS.HIGH_SCORES IN
  Only({ Only({
    LET highScores == g.value
        shared == SharesDefaults(g, key)
        truncated == Len(pushed) > highScores.maxScores
        kept == IF truncated THEN SubSeq(pushed, 1, highScores.maxScores) ELSE pushed
        updated == [highScores EXCEPT !.scores = kept, !.updatedAt = t]
        inPlace == [g.st EXCEPT
                      !.cache = IF g.from = "default" THEN @ ELSE Put(@, key, updated),
                      !.DEFAULTS.HIGH_SCORES.scores = IF shared THEN pushed ELSE @]
    IN Only({ [st |-> w.st, threw |-> w.result = "throw", calls |-> w.calls]
              : w \in {set(inPlace, key, updated, shared /\ ~truncated, rejects)} })
    : pushed \in {sortScores(Append(g.value.scores, Put(scoreData, "id", t)))} })
    : g \in {getHighScores(st)} })

\* an accuracy history that drops the new value when it is full
pushAccuracy_evictNewest(history, accuracy) ==
  IF Len(history) >= MaxAccuracyHistory THEN history ELSE Append(history, accuracy)

\* colorAccuracyHistory.push(accuracy), and shift() past the bound
pushAccuracy(history, accuracy) ==
  LET a == Append(history, accuracy)
  IN  IF Len(a) > MaxAccuracyHistory THEN Tail(a) ELSE a

\* the statistics after recordGame's updates (storage.js 351-406)
recordedStats(stats, gameResult, t) ==
  LET won == gameResult.won
      score == gameResult.score
      time == gameResult.time
      difficulty == gameResult.difficulty
      totalGames == stats.totalGames + 1
      totalTimeSpent == stats.totalTimeSpent + time
      gamesWon == IF won THEN stats.gamesWon + 1 ELSE stats.gamesWon
      totalScore == IF won THEN stats.totalScore + score ELSE stats.totalScore
      currentStreak == IF won THEN stats.currentStreak + 1 ELSE 0
      accuracyHistory ==
        IF Has(gameResult, "accuracy")
        THEN pushAccuracy(stats.colorAccuracyHistory, gameResult.accuracy)
        ELSE stats.colorAccuracyHistory
  IN [stats EXCEPT
        !.totalGames = totalGames,
        !.totalTimeSpent = totalTimeSpent,
        !.averageTime = RoundDiv(totalTimeSpent, totalGames),
        !.gamesWon = gamesWon,
        !.gamesLost = IF won THEN @ ELSE @ + 1,
        !.totalScore = totalScore,
        !.currentStreak = currentStreak,
        !.bestStreak = IF won THEN Max(@, currentStreak) ELSE @,
        !.bestScore = IF won /\ score > @ THEN score ELSE @,
        !.bestTime = IF won /\ (@ = 0 \/ time < @) THEN time ELSE @,
        !.difficultyCounts =
           IF Has(@, difficulty)
           THEN [@ EXCEPT ![difficulty] =
                   [played |-> @.played + 1,
                    won |-> IF won THEN @.won + 1 ELSE @.won,
                    totalScore |-> IF won THEN @.totalScore + score ELSE @.totalScore]]
           ELSE @,
        !.colorAccuracyHistory = accuracyHistory,
        !.sessionStats =
           [startTime |-> IF @.startTime = 0 THEN t ELSE @.startTime,
            gamesPlayed |-> @.gamesPlayed + 1,
            gamesWon |-> IF won THEN @.gamesWon + 1 ELSE @.gamesWon],
        !.averageScore = IF gamesWon > 0 THEN RoundDiv(totalScore, gamesWon) ELSE 0,
        !.lastPlayed = t,
        !.updatedAt = t]

\* StorageManager.recordGame(gameResult) at clock t. The statistics document
\* get() returned is updated in place (the cached object itself, and the nested
\* objects of DEFAULT_GAME_STATISTICS when it is the default's shallow copy),
\* then written with set, and then the high score is added.
recordGame(st, gameResult, t, rejects) ==
  LET key == STORAGE_KEYS.GAME_STATISTICS IN
  Only({ Only({
    LET shared == SharesDefaults(g, key)
        inPlace == [g.st EXCEPT
                      !.cache = IF g.from = "default" THEN @ ELSE Put(@, key, stats),
                      !.DEFAULTS.GAME_STATISTICS =
                         IF shared
                         THEN [@ EXCEPT !.difficultyCounts = stats.difficultyCounts,
                                        !.colorAccuracyHistory = stats.colorAccuracyHistory,
                                        !.sessionStats = stats.sessionStats]
                         ELSE @]
    IN Only({
         IF w.result = "throw" THEN [st |-> w.st, threw |-> TRUE, calls |-> w.calls]
         ELSE IF gameResult.won /\ gameResult.score > 0
         THEN Only({ [st |-> h.st, threw |-> h.threw, calls |-> w.calls \o h.calls]
                     : h \in {addHighScore(w.st, Drop(gameResult, "won"), t, rejects)} })
         ELSE [st |-> w.st, threw |-> FALSE, calls |-> w.calls]
         : w \in {set(inPlace, key, stats, shared, rejects)} })
    : stats \in {recordedStats(g.value, gameResult, t)} })
    : g \in {getGameStatistics(st)} })

\* { ...current, ...updates }
Merge(current, updates) ==
  [k \in DOMAIN current \cup DOMAIN updates |->
     IF k \in DOMAIN updates THEN updates[k] ELSE current[k]]

\* StorageManager.updateGameStatistics(updates) at clock t: the merged document
\* is a new object that shares the nested objects of the one get() returned
updateGameStatistics(st, updates, t, rejects) ==
  LET key == STORAGE_KEYS.GAME_STATISTICS IN
  Only({
    LET merged == [Merge(g.value, updates) EXCEPT !.updatedAt = t]
        updated ==
          IF Has(updates, "totalGames") \/ Has(updates, "totalScore")
          THEN [merged EXCEPT !.averageScore =
                  IF merged.totalGames > 0
                  THEN RoundDiv(merged.totalScore, merged.totalGames) ELSE 0]
          ELSE merged
    IN Only({ [st |-> w.st, threw |-> w.result = "throw", calls |-> w.calls]
              : w \in {set(g.st, key, updated, SharesDefaults(g, key), rejects)} })
    : g \in {getGameStatistics(st)} })

\* DEFAULT_USER_PREFERENCES, with the closed-enum fields, one switch and the
\* nested accessibility object
DEFAULT_USER_PREFERENCES ==
  [ version |-> SCHEMA_VERSION, difficulty |-> "easy", soundEnabled |-> TRUE,
    colorFormat |-> "hex", theme |-> "light",
    accessibility |-> [reduceMotion |-> FALSE, highContrast |-> FALSE],
    updatedAt |-> 1 ]

\* the versioned documents, in the order migrateData reads them
VersionedKeys ==
  <<STORAGE_KEYS.GAME_STATISTICS, STORAGE_KEYS.USER_PREFERENCES, STORAGE_KEYS.HIGH_SCORES>>

\* the default document of a versioned key, as the module holds it now
DefaultOf(st, key) ==
  CASE key = STORAGE_KEYS.GAME_STATISTICS -> st.DEFAULTS.GAME_STATISTICS
    [] key = STORAGE_KEYS.USER_PREFERENCES -> DEFAULT_USER_PREFERENCES
    [] key = STORAGE_KEYS.HIGH_SCORES -> st.DEFAULTS.HIGH_SCORES

\* the top-level fields of the defaults that hold an object or an array the
\* module can change in place
NestedKeys(key) ==
  CASE key = STORAGE_KEYS.GAME_STATISTICS ->
         {"difficultyCounts", "colorAccuracyHistory", "sessionStats"}
    [] key = STORAGE_KEYS.USER_PREFERENCES -> {}
    [] key = STORAGE_KEYS.HIGH_SCORES -> {"scores"}

\* getRaw(key): the parsed document, or nothing (null) without a backend, for
\* a key that is not stored and for a text that does not parse
getRaw(st, key) ==
  IF st.isSupported /\ Has(st.localStorage, key) /\ st.localStorage[key].valid
  THEN [found |-> TRUE, value |-> st.localStorage[key].value]
  ELSE [found |-> FALSE]

\* a version check that also takes a document of the current version
needsMigration_current(doc) ==
  IF Has(doc, "version") THEN doc.version = 0 \/ doc.version <= SCHEMA_VERSION ELSE TRUE

\* !doc.version || doc.version < SCHEMA_VERSION
needsMigration(doc) ==
  IF Has(doc, "version") THEN doc.version = 0 \/ doc.version < SCHEMA_VERSION ELSE TRUE

\* a migration in which the defaults win over the stored fields
migrated_defaultsWin(default, old, t) ==
  Put(Put(Merge(old, default), "version", SCHEMA_VERSION), "updatedAt", t)

\* migrateGameStatistics / migrateUserPreferences / migrateHighScores at clock
\* t: { ...DEFAULT, ...old } with the version and updatedAt stamped
migrated(default, old, t) ==
  Put(Put(Merge(default, old), "version", SCHEMA_VERSION), "updatedAt", t)

RECURSIVE migrateFrom(_, _, _, _)
\* migrateData() from the document of keys[1] on: a set that throws ends it
\* (the catch of migrateData); writes are the keys written, in order
migrateFrom(st, keys, t, rejects) ==
  IF keys = <<>> THEN [st |-> st, writes |-> <<>>]
  ELSE Only({
    IF raw.found
    THEN IF needsMigration(raw.value)
         THEN Only({
                IF w.result = "throw" THEN [st |-> w.st, writes |-> <<>>]
                ELSE Only({ [st |-> rest.st, writes |-> <<keys[1]>> \o rest.writes]
                            : rest \in {migrateFrom(w.st, Tail(keys), t, rejects)} })
                : w \in {set(st, keys[1],
                             migrated(DefaultOf(st, keys[1]), raw.value, t),
                             \E k \in NestedKeys(keys[1]) : ~Has(raw.value, k),
                             rejects)} })
         ELSE migrateFrom(st, Tail(keys), t, rejects)
    ELSE migrateFrom(st, Tail(keys), t, rejects)
    : raw \in {getRaw(st, keys[1])} })

\* StorageManager.migrateData() at clock t
migrateData(st, t, rejects) == migrateFrom(st, VersionedKeys, t, rejects)

\* StorageManager.getUserPreferences(): the default is a shallow copy of
\* DEFAULT_USER_PREFERENCES
getUserPreferences(st) ==
  get(st, STORAGE_KEYS.USER_PREFERENCES, DEFAULT_USER_PREFERENCES)

\* StorageManager.updateUserPreferences(updates) at clock t:
\* { ...current, ...updates, updatedAt }, written with set and returned
updateUserPreferences(st, updates, t, rejects) ==
  Only({ Only({ [st |-> w.st, threw |-> w.result = "throw", calls |-> w.calls,
                 updated |-> updated]
                : w \in {set(g.st, STORAGE_KEYS.USER_PREFERENCES, updated, FALSE, rejects)} })
         : g \in {getUserPreferences(st)},
           updated \in {Put(Merge(getUserPreferences(st).value, updates), "updatedAt", t)} })

\* the names of STORAGE_KEYS, in the order Object.entries gives them
StorageNames == <<"GAME_STATISTICS", "USER_PREFERENCES", "HIGH_SCORES">>

\* what stands for an argument of importData that is no object (null, a string)
NotAnObject == [notAnObject |-> TRUE]

\* an import that merges the existing document over the bundle's
importedDocument_existingWins(g, document, merge) ==
  IF merge /\ g.from # "default" THEN Merge(document, g.value) ELSE document

\* the document importData writes for a key: g is what get(key) returned (from
\* "default": null, nothing read), document the bundle's
importedDocument(g, document, merge) ==
  IF merge /\ g.from # "default" THEN Merge(g.value, document) ELSE document

RECURSIVE importFrom(_, _, _, _, _)
\* the forEach of importData from names[1] on: a name the bundle lacks is
\* skipped, and a set that throws ends the loop (the catch rethrows)
importFrom(st, names, data, merge, rejects) ==
  IF names = <<>> THEN [st |-> st, threw |-> FALSE, calls |-> <<>>, writes |-> <<>>]
  ELSE IF ~Has(data, names[1]) THEN importFrom(st, Tail(names), data, merge, rejects)
  ELSE Only({ Only({
         IF w.result = "throw"
         THEN [st |-> w.st, threw |-> TRUE, calls |-> w.calls, writes |-> <<>>]
         ELSE Only({ [st |-> rest.st, threw |-> rest.threw, calls |-> w.calls \o rest.calls,
                      writes |-> <<key>> \o rest.writes]
                     : rest \in {importFrom(w.st, Tail(names), data, merge, rejects)} })
         : w \in {set(IF merge THEN g.st ELSE st, key,
                      importedDocument(g, data[names[1]], merge),
                      merge /\ SharesDefaults(g, key) /\ g.from # "default"
                        /\ \E k \in NestedKeys(key) : ~Has(data[names[1]], k),
                      rejects)} })
         : key \in {STORAGE_KEYS[names[1]]},
           g \in {get(st, STORAGE_KEYS[names[1]], Null)} })

\* StorageManager.importData(data, merge)
importData(st, data, merge, rejects) ==
  IF Has(data, "notAnObject")
  THEN [st |-> st, threw |-> TRUE, calls |-> <<>>, writes |-> <<>>]
  ELSE importFrom(st, StorageNames, data, merge, rejects)

\* the listeners after subscribe(key, callback): Set.add, in insertion order
subscribe(ls, key, cb) ==
  IF ~Has(ls, key) THEN Put(ls, key, <<cb>>)
  ELSE IF \E i \in 1..Len(ls[key]) : ls[key][i] = cb THEN ls
  ELSE Put(ls, key, Append(ls[key], cb))

\* the listeners after a call of the function subscribe(key, callback)
\* returned: Set.delete, and the key goes with its last callback
unsubscribe(ls, key, cb) ==
  IF ~Has(ls, key) THEN ls
  ELSE Only({ IF keyListeners = <<>>
              THEN [k \in DOMAIN ls \ {key} |-> ls[k]]
              ELSE Put(ls, key, keyListeners)
              : keyListeners \in {SelectSeq(ls[key], LAMBDA c : c # cb)} })

\* the key updateStatistics reads the played games from
GAME_HISTORY_KEY == "game_history"

\* Math.round(100 * won / total) for total > 0
Percent(won, total) == RoundDiv(100 * won, total)

\* updateStatistics(): the numbers it writes into the page (as numbers: the
\* page shows their decimal text, the win rate with a % sign). The games are
\* the list stored under 'game_history'; highScores is the document
\* getHighScores returns, an object without a length property, so that
\* highScores.length > 0 is false.
updateStatistics(st) ==
  Only({ Only({
    LET gameHistory == g.value
        highScores == h.value
        totalGames == Len(gameHistory)
        gamesWon == Cardinality({i \in 1..Len(gameHistory) : gameHistory[i].won})
    IN [st |-> h.st,
        display |->
          [totalGames |-> totalGames,
           winRate |-> IF totalGames > 0 THEN Percent(gamesWon, totalGames) ELSE 0,
           bestScore |-> IF Has(highScores, "length")
                         THEN IF highScores.length > 0 THEN highScores.scores[1].score ELSE 0
                         ELSE 0]]
    : h \in {getHighScores(g.st)} })
    : g \in {get(st, GAME_HISTORY_KEY, <<>>)} })

\* StorageManager.clear(): every key of STORAGE_KEYS is taken from the backend
\* and from the cache; no listener is told
clear(st) ==
  IF ~st.isSupported THEN st
  ELSE \* Object.values(STORAGE_KEYS)
       Only({ [st EXCEPT !.localStorage = [k \in DOMAIN @ \ keys |-> @[k]],
                         !.cache = [k \in DOMAIN @ \ keys |-> @[k]],
                         !.aliased = @ \ keys]
              : keys \in {{STORAGE_KEYS[n] : n \in DOMAIN STORAGE_KEYS}} })

\* ------------------------------------------------------------ persistence store actions

\* a statistics document left by an earlier session: two games, both lost
EarlierStats ==
  recordedStats(
    recordedStats(DEFAULT_GAME_STATISTICS,
                  [won |-> FALSE, score |-> 0, time |-> 9, difficulty |-> "easy",
                   accuracy |-> 40], 1),
    [won |-> FALSE, score |-> 0, time |-> 12, difficulty |-> "easy", accuracy |-> 60], 1)

\* the store with nothing stored, as the other components' specifications see it
storeIdle ==
  /\ isSupported = TRUE
  /\ localStorage = <<>>
  /\ cache = <<>>
  /\ listeners = <<>>
  /\ unsubscribers = <<>>
  /\ DEFAULTS = [GAME_STATISTICS |-> DEFAULT_GAME_STATISTICS,
                 HIGH_SCORES |-> DEFAULT_HIGH_SCORES]
  /\ aliased = {}
  /\ storeOps = 0
  /\ stLast = [op |-> "new"]
  /\ stThrew = FALSE
  /\ stPrev = [cache |-> <<>>, localStorage |-> <<>>]
  /\ stCalls = <<>>

\* after construction: the backend empty or holding an earlier session's
\* statistics (at the current schema version, so migrateData writes nothing)
storeInit ==
  /\ isSupported \in BOOLEAN
  /\ localStorage \in
       { <<>>, Put(<<>>, STORAGE_KEYS.GAME_STATISTICS, stringify(EarlierStats)) }
  /\ cache = <<>>
  /\ listeners = <<>>
  /\ unsubscribers = <<>>
  /\ DEFAULTS = [GAME_STATISTICS |-> DEFAULT_GAME_STATISTICS,
                 HIGH_SCORES |-> DEFAULT_HIGH_SCORES]
  /\ aliased = {}
  /\ storeOps = 0
  /\ stLast = [op |-> "new"]
  /\ stThrew = FALSE
  /\ stPrev = [cache |-> <<>>, localStorage |-> localStorage]
  /\ stCalls = <<>>
  /\ now = 2

\* the store's variables after an operation that left the store as st
StoreBecomes(st) ==
  /\ localStorage' = st.localStorage
  /\ cache' = st.cache
  /\ DEFAULTS' = st.DEFAULTS
  /\ aliased' = st.aliased
  /\ stPrev' = [cache |-> cache, localStorage |-> localStorage]
  /\ storeOps' = storeOps + 1
  /\ UNCHANGED <<isSupported, listeners, unsubscribers>>

GameResults ==
  { [won |-> TRUE, score |-> 90, time |-> 7, difficulty |-> "easy", accuracy |-> 100],
    [won |-> TRUE, score |-> 0, time |-> 120, difficulty |-> "easy", accuracy |-> 100],
    [won |-> FALSE, score |-> 0, time |-> 30, difficulty |-> "hard"] }

RecordGame(gameResult, rejects) ==
  /\ storeOps < MaxStoreOps
  /\ \E o \in {recordGame(Store, gameResult, now, rejects)} :
       /\ StoreBecomes(o.st)
       /\ stThrew' = o.threw
       /\ stCalls' = o.calls
  /\ stLast' = [op |-> "recordGame", gameResult |-> gameResult, rejects |-> rejects,
                t |-> now, read |-> getGameStatistics(Store).value]
  /\ now' = now + 1
  /\ UNCHANGED <<smVars, gameVars>>

\* storage.set('current_difficulty', value), as the difficulty selector does
Set(key, value, rejects) ==
  /\ storeOps < MaxStoreOps
  /\ \E o \in {set(Store, key, value, FALSE, rejects)} :
       /\ StoreBecomes(o.st)
       /\ stThrew' = (o.result = "throw")
       /\ stCalls' = o.calls
  /\ stLast' = [op |-> "set", key |-> key, value |-> value, rejects |-> rejects]
  /\ UNCHANGED now
  /\ UNCHANGED <<smVars, gameVars>>

Remove(key) ==
  /\ storeOps < MaxStoreOps
  /\ \E o \in {remove(Store, key)} :
       /\ StoreBecomes(o.st)
       /\ stCalls' = o.calls
  /\ stThrew' = FALSE
  /\ stLast' = [op |-> "remove", key |-> key]
  /\ UNCHANGED now
  /\ UNCHANGED <<smVars, gameVars>>

\* the updates handed to updateGameStatistics
StatisticsUpdates == { [totalScore |-> 100], [gamesWon |-> 3], [bestStreak |-> 2] }

UpdateGameStatistics(updates, rejects) ==
  /\ storeOps < MaxStoreOps
  /\ \E o \in {updateGameStatistics(Store, updates, now, rejects)} :
       /\ StoreBecomes(o.st)
       /\ stThrew' = o.threw
       /\ stCalls' = o.calls
  /\ stLast' = [op |-> "updateGameStatistics", updates |-> updates, rejects |-> rejects]
  /\ now' = now + 1
  /\ UNCHANGED <<smVars, gameVars>>

\* the scores handed to addHighScore
ScoreData ==
  { [score |-> 90, time |-> 7, difficulty |-> "easy"],
    [score |-> 90, time |-> 5, difficulty |-> "hard"],
    [score |-> 40, time |-> 9, difficulty |-> "easy"] }

AddHighScore(scoreData, rejects) ==
  /\ storeOps < MaxScoreOps
  /\ \E o \in {addHighScore(Store, scoreData, now, rejects)} :
       /\ StoreBecomes(o.st)
       /\ stThrew' = o.threw
       /\ stCalls' = o.calls
  /\ stLast' = [op |-> "addHighScore", scoreData |-> scoreData, rejects |-> rejects,
                t |-> now, read |-> getHighScores(Store).value]
  /\ now' = now + 1
  /\ UNCHANGED <<smVars, gameVars>>

\* documents an earlier version of the program left: statistics without a
\* version and without sessionStats, preferences at version 0 with a field that
\* no longer exists, a high-score board without version and maxScores
OldStatistics == Drop(Drop(EarlierStats, "version"), "sessionStats")

OldPreferences ==
  [ version |-> 0, difficulty |-> "hard", soundEnabled |-> FALSE, legacy |-> TRUE,
    updatedAt |-> 1 ]

OldHighScores ==
  [ scores |-> <<[score |-> 90, time |-> 7, difficulty |-> "easy", id |-> 1]>>,
    updatedAt |-> 1 ]

CurrentPreferences == [DEFAULT_USER_PREFERENCES EXCEPT !.theme = "dark", !.updatedAt = 1]

CurrentHighScores == [DEFAULT_HIGH_SCORES EXCEPT !.scores = OldHighScores.scores]

\* what the backend can hold for a versioned key when the StorageManager is
\* constructed: a document of an earlier version or one of the current
\* version; for the preferences also a text that does not parse
StoredDocs(key) ==
  CASE key = STORAGE_KEYS.GAME_STATISTICS ->
         {stringify(OldStatistics), stringify(EarlierStats)}
    [] key = STORAGE_KEYS.USER_PREFERENCES ->
         {stringify(OldPreferences), stringify(CurrentPreferences), [valid |-> FALSE]}
    [] key = STORAGE_KEYS.HIGH_SCORES ->
         {stringify(OldHighScores), stringify(CurrentHighScores)}

\* the backends found at construction: any of the versioned keys stored
StoredBackends ==
  UNION { { backend \in [keys -> UNION {StoredDocs(k) : k \in keys}] :
              \A k \in keys : backend[k] \in StoredDocs(k) }
          : keys \in SUBSET {VersionedKeys[i] : i \in 1..Len(VersionedKeys)} }

\* migrateData(): the call of the constructor, and calls after it
MigrateData(rejects) ==
  /\ storeOps < MaxMigrations
  /\ \E o \in {migrateData(Store, now, rejects)} :
       /\ StoreBecomes(o.st)
       /\ stLast' = [op |-> "migrateData", rejects |-> rejects, t |-> now,
                     writes |-> o.writes,
                     rejected |-> IF stLast.op = "migrateData"
                                  THEN stLast.rejected \cup rejects ELSE rejects]
  /\ stThrew' = FALSE
  /\ stCalls' = <<>>
  /\ now' = now + 1
  /\ UNCHANGED <<smVars, gameVars>>

\* the updates handed to updateUserPreferences: a known theme, and a colour
\* format outside the enum
PreferenceUpdates == { [theme |-> "auto"], [colorFormat |-> "cmyk"] }

UpdateUserPreferences(updates, rejects) ==
  /\ storeOps < MaxImportOps
  /\ \E o \in {updateUserPreferences(Store, updates, now, rejects)} :
       /\ StoreBecomes(o.st)
       /\ stThrew' = o.threw
       /\ stCalls' = o.calls
  /\ stLast' = [op |-> "updateUserPreferences", updates |-> updates, rejects |-> rejects,
                t |-> now]
  /\ now' = now + 1
  /\ UNCHANGED <<smVars, gameVars>>

\* the backups handed to importData: preferences with two fields, one of them
\* unknown to the defaults; statistics and a high-score board; preferences
\* with a theme outside the enum; a bundle without documents; no object
Bundles ==
  { [USER_PREFERENCES |-> [soundEnabled |-> FALSE, legacy |-> TRUE]],
    [GAME_STATISTICS |-> [totalGames |-> 5, gamesWon |-> 5],
     HIGH_SCORES |-> DEFAULT_HIGH_SCORES],
    [USER_PREFERENCES |-> [theme |-> "sepia"]],
    <<>>,
    NotAnObject }

ImportData(data, merge, rejects) ==
  /\ storeOps < MaxImportOps
  /\ \E o \in {importData(Store, data, merge, rejects)} :
       /\ StoreBecomes(o.st)
       /\ stThrew' = o.threw
       /\ stCalls' = o.calls
       /\ stLast' = [op |-> "importData", data |-> data, merge |-> merge,
                     rejects |-> rejects, writes |-> o.writes]
  /\ UNCHANGED now
  /\ UNCHANGED <<smVars, gameVars>>

\* updateStatistics(): a read of the store (which fills the cache); the
\* numbers shown are kept in stLast
UpdateStatistics ==
  /\ \E o \in {updateStatistics(Store)} :
       /\ localStorage' = o.st.localStorage
       /\ cache' = o.st.cache
       /\ DEFAULTS' = o.st.DEFAULTS
       /\ aliased' = o.st.aliased
       /\ stLast' = [op |-> "updateStatistics", display |-> o.display]
  /\ stPrev' = [cache |-> cache, localStorage |-> localStorage]
  /\ stThrew' = FALSE
  /\ stCalls' = <<>>
  /\ UNCHANGED <<isSupported, listeners, unsubscribers, storeOps, now>>
  /\ UNCHANGED <<smVars, gameVars>>

\* StorageManager.clear()
Clear ==
  /\ storeOps < MaxScoreOps
  /\ StoreBecomes(clear(Store))
  /\ stLast' = [op |-> "clear"]
  /\ stThrew' = FALSE
  /\ stCalls' = <<>>
  /\ UNCHANGED now
  /\ UNCHANGED <<smVars, gameVars>>

Callbacks == {"returns", "throws"}

\* StorageManager.subscribe(key, callback), its result dropped:
\* listeners.get(key) is a Set
StoreSubscribe(key, cb) ==
  /\ IF Has(listeners, key)
     THEN /\ Len(listeners[key]) < MaxListeners
          /\ \A i \in 1..Len(listeners[key]) : listeners[key][i] # cb
     ELSE TRUE
  /\ listeners' = Put(listeners, key,
                      IF Has(listeners, key) THEN Append(listeners[key], cb) ELSE <<cb>>)
  /\ stLast' = [op |-> "subscribe"]
  /\ stThrew' = FALSE
  /\ stCalls' = <<>>
  /\ stPrev' = [cache |-> cache, localStorage |-> localStorage]
  /\ UNCHANGED <<isSupported, localStorage, cache, DEFAULTS, aliased, storeOps, now,
                 unsubscribers>>
  /\ UNCHANGED <<smVars, gameVars>>

WatchedKeys == {STORAGE_KEYS.GAME_STATISTICS, CURRENT_DIFFICULTY}

\* StorageManager.subscribe(key, callback) by a caller that keeps the function
\* it returns; adding a callback the Set holds changes nothing
SubscribeAndKeep(key, cb) ==
  /\ Len(unsubscribers) < MaxUnsubscribers
  /\ listeners' = subscribe(listeners, key, cb)
  /\ unsubscribers' = Append(unsubscribers, [key |-> key, callback |-> cb, called |-> FALSE])
  /\ stLast' = [op |-> "subscribe"]
  /\ stThrew' = FALSE
  /\ stCalls' = <<>>
  /\ stPrev' = [cache |-> cache, localStorage |-> localStorage]
  /\ UNCHANGED <<isSupported, localStorage, cache, DEFAULTS, aliased, storeOps, now>>
  /\ UNCHANGED <<smVars, gameVars>>

\* a caller calls the n-th unsubscribe function it keeps
Unsubscribe(n) ==
  /\ n \in 1..Len(unsubscribers)
  /\ listeners' = unsubscribe(listeners, unsubscribers[n].key, unsubscribers[n].callback)
  /\ unsubscribers' = [unsubscribers EXCEPT ![n].called = TRUE]
  /\ stLast' = [op |-> "unsubscribe", n |-> n]
  /\ stThrew' = FALSE
  /\ stCalls' = <<>>
  /\ stPrev' = [cache |-> cache, localStorage |-> localStorage]
  /\ UNCHANGED <<isSupported, localStorage, cache, DEFAULTS, aliased, storeOps, now>>
  /\ UNCHANGED <<smVars, gameVars>>

\* subscriptions made, ended and served on one key
listenersNext ==
  \/ \E cb \in Callbacks : SubscribeAndKeep(CURRENT_DIFFICULTY, cb)
  \/ \E n \in 1..MaxUnsubscribers : Unsubscribe(n)
  \/ \E value \in {"easy", "hard"} : Set(CURRENT_DIFFICULTY, value, {})

storeNext ==
  \/ \E gameResult \in GameResults, rejects \in SUBSET {STORAGE_KEYS.GAME_STATISTICS, STORAGE_KEYS.HIGH_SCORES} :
       RecordGame(gameResult, rejects)
  \/ \E value \in {"easy", "hard"}, rejects \in SUBSET {CURRENT_DIFFICULTY} :
       Set(CURRENT_DIFFICULTY, value, rejects)
  \/ \E key \in WatchedKeys : Remove(key)
  \/ \E key \in WatchedKeys, cb \in Callbacks : StoreSubscribe(key, cb)

\* ------------------------------------------------------------ game session

DIFFICULTIES ==
  [ easy |-> [tipCount |-> 3, computerTipCount |-> 3, score |-> 100],
    medium |-> [tipCount |-> 2, computerTipCount |-> 2, score |-> 200],
    hard |-> [tipCount |-> 1, computerTipCount |-> 1, score |-> 300] ]

\* the memorize phase: setTimeout(..., 3000), in seconds of the clock
MemorizeDelay == 3

\* the state object of state.js; startTime and timerInterval are 0 for null
initialSession ==
  [ generatedColor |-> Null, startTime |-> 0, score |-> 0, tipCount |-> 0,
    timerInterval |-> 0, computerTipCount |-> 0, isGameActive |-> FALSE,
    difficulty |-> "easy" ]

\* a resetState() that also starts the score again
resetState_clearsScore(s, live) ==
  [ state |-> [initialSession EXCEPT !.difficulty = s.difficulty],
    intervals |-> IF s.timerInterval # 0 THEN live \ {s.timerInterval} ELSE live ]

\* resetState(): the state and the live intervals it leaves
resetState(s, live) ==
  [ state |-> [s EXCEPT !.generatedColor = Null, !.startTime = 0, !.tipCount = 0,
                        !.timerInterval = 0, !.computerTipCount = 0,
                        !.isGameActive = FALSE],
    intervals |-> IF s.timerInterval # 0 THEN live \ {s.timerInterval} ELSE live ]

\* a setDifficulty(difficulty) that looks the level up before it writes anything
setDifficulty_lookupFirst(s, difficulty) ==
  IF difficulty \in DOMAIN DIFFICULTIES
  THEN [ok |-> TRUE,
        state |-> [s EXCEPT !.difficulty = difficulty,
                            !.tipCount = DIFFICULTIES[difficulty].tipCount,
                            !.computerTipCount = DIFFICULTIES[difficulty].computerTipCount]]
  ELSE [ok |-> FALSE, state |-> s]

\* setDifficulty(difficulty): throws once it has set state.difficulty when
\* DIFFICULTIES has no such level
setDifficulty(s, difficulty) ==
  IF difficulty \in DOMAIN DIFFICULTIES
  THEN [ok |-> TRUE,
        state |-> [s EXCEPT !.difficulty = difficulty,
                            !.tipCount = DIFFICULTIES[difficulty].tipCount,
                            !.computerTipCount = DIFFICULTIES[difficulty].computerTipCount]]
  ELSE [ok |-> FALSE, state |-> [s EXCEPT !.difficulty = difficulty]]

\* a startTimer() that keeps the id of an interval it never starts
startTimer_noInterval(s, live, id) ==
  [ state |-> [s EXCEPT !.timerInterval = id],
    intervals |-> IF s.timerInterval # 0 THEN live \ {s.timerInterval} ELSE live ]

\* startTimer() with id the id setInterval returns
startTimer(s, live, id) ==
  [ state |-> [s EXCEPT !.timerInterval = id],
    intervals |-> (IF s.timerInterval # 0 THEN live \ {s.timerInterval} ELSE live)
                  \cup {id} ]

gameIdle ==
  /\ gameState = initialSession
  /\ timeouts = <<>>
  /\ intervals = {}
  /\ timerIds = 0
  /\ rounds = 0
  /\ activated = <<>>
  /\ gameLast = [op |-> "new"]
  /\ activeRound = [level |-> Null, wrong |-> 0]

gameInit == gameIdle /\ now = 1

\* the colors generateRandomColor() draws from, in the model
Colors == {"#A1B2C3", "#0F0F0F"}

\* the options of the difficulty selector
Levels == {"easy", "medium", "hard"}

\* startGame() with DOM.difficulty.value = level and generateRandomColor()
\* giving color: the handle setTimeout returns is dropped, so the callback
\* stays scheduled whatever happens before it is due
StartGame(level, color) ==
  /\ rounds < MaxRounds
  /\ LET r == resetState(gameState, intervals)
         d == setDifficulty(r.state, level)
     IN  /\ intervals' = r.intervals
         /\ IF d.ok
            THEN /\ gameState' = [d.state EXCEPT !.generatedColor = color]
                 /\ timeouts' = Append(timeouts, [id |-> timerIds + 1,
                                                  round |-> rounds + 1,
                                                  due |-> now + MemorizeDelay])
                 /\ timerIds' = timerIds + 1
            ELSE /\ gameState' = d.state
                 /\ UNCHANGED <<timeouts, timerIds>>
  /\ rounds' = rounds + 1
  /\ gameLast' = [op |-> "startGame", level |-> level, recorded |-> storeOps]
  /\ activeRound' = [level |-> Null, wrong |-> 0]
  /\ UNCHANGED <<activated, now>>
  /\ UNCHANGED <<smVars, storeVars>>

\* the callback startGame scheduled runs (game.js 313-322): the oldest pending
\* one, once it is due. It acts on the session as it is now: the round it
\* activates is the current one.
Activate ==
  /\ timeouts # <<>>
  /\ timeouts[1].due <= now
  /\ LET t == startTimer([gameState EXCEPT !.isGameActive = TRUE, !.startTime = now],
                         intervals, timerIds + 1)
     IN  /\ gameState' = t.state
         /\ intervals' = t.intervals
  /\ timerIds' = timerIds + 1
  /\ activated' = Append(activated, [callback |-> timeouts[1].round, round |-> rounds])
  /\ activeRound' = IF gameState.isGameActive THEN activeRound
                    ELSE [level |-> gameState.difficulty, wrong |-> 0]
  /\ timeouts' = Tail(timeouts)
  /\ gameLast' = [op |-> "activate", recorded |-> gameLast.recorded]
  /\ UNCHANGED <<rounds, now>>
  /\ UNCHANGED <<smVars, storeVars>>

\* a second passes; the clock is followed up to MaxTime, and past it for as
\* long as a scheduled callback is not yet due
Tick ==
  /\ IF timeouts # <<>> THEN now < Max(MaxTime, timeouts[1].due) ELSE now < MaxTime
  /\ now' = now + 1
  /\ UNCHANGED gameVars
  /\ UNCHANGED <<smVars, storeVars>>

gameNext ==
  \/ \E level \in Levels, color \in Colors : StartGame(level, color)
  \/ Activate
  \/ Tick

\* what the player has in DOM.colorInput when checkColor reads it: the color
\* shown, in lower case, or nothing
Inputs == {"a1b2c3", ""}

\* the levels played where the guesses are under study
PlayLevels == {"medium", "hard"}

\* the color the rounds show where the guesses are under study
ShownColor == "#A1B2C3"

\* String.prototype.toUpperCase on the colors the inputs give
toUpperCase(text) == IF text = "#a1b2c3" THEN "#A1B2C3" ELSE text

\* '#' + DOM.colorInput.value.replace('#', '')
userColor(input) == "#" \o input

\* a calculateScore() that adds the base score whatever time has passed
calculateScore_baseOnly(s, t) ==
  [s EXCEPT !.score = @ + DIFFICULTIES[s.difficulty].score]

\* calculateScore() at clock t (seconds; Date.now() is in milliseconds)
calculateScore(s, t) ==
  LET elapsedTime == ((t - s.startTime) * 1000) \div 1000
      baseScore == DIFFICULTIES[s.difficulty].score
  IN  [s EXCEPT !.score = @ + Max(0, baseScore - elapsedTime)]

\* calculateAccuracy(): 0 without a color or an input, 100 for the color itself
\* (Delta E is 0), whatever its case
calculateAccuracy(s, input) ==
  IF s.generatedColor = Null \/ input = "" THEN 0
  ELSE IF toUpperCase(userColor(input)) = s.generatedColor THEN 100
  ELSE 0

\* what endGame(isCorrect) hands to storage.recordGame, and the session it leaves
endedGame(s, isCorrect, input, t) ==
  LET ended == [s EXCEPT !.isGameActive = FALSE]
      scored == IF isCorrect THEN calculateScore(ended, t) ELSE ended
  IN  [ state |-> scored,
        gameResult |-> [won |-> isCorrect,
                        score |-> IF isCorrect THEN scored.score ELSE 0,
                        time |-> (t - s.startTime) * 1000,
                        difficulty |-> s.difficulty,
                        accuracy |-> calculateAccuracy(s, input)] ]

\* endGame(isCorrect): the tick interval is cleared (its id stays in the
\* state), the score is added for a win, and the game is recorded in the store
endGame(s, isCorrect, input) ==
  \E e \in {endedGame(s, isCorrect, input, now)} :
    /\ gameState' = e.state
    /\ intervals' = intervals \ {s.timerInterval}
    /\ \E o \in {recordGame(Store, e.gameResult, now, {})} :
         /\ StoreBecomes(o.st)
         /\ stThrew' = o.threw
         /\ stCalls' = o.calls
    /\ stLast' = [op |-> "recordGame", gameResult |-> e.gameResult, rejects |-> {},
                  t |-> now, read |-> getGameStatistics(Store).value]

\* checkColor() with input in DOM.colorInput
CheckColor(input) ==
  /\ IF ~gameState.isGameActive
     THEN UNCHANGED <<gameState, intervals, storeVars, activeRound>>
     ELSE IF toUpperCase(userColor(input)) = gameState.generatedColor
     THEN endGame(gameState, TRUE, input) /\ UNCHANGED activeRound
     ELSE \E s \in {[gameState EXCEPT !.tipCount = @ - 1]} :
            /\ activeRound.wrong < MaxGuesses
            /\ activeRound' = [activeRound EXCEPT !.wrong = @ + 1]
            /\ IF s.tipCount > 0
               THEN gameState' = s /\ UNCHANGED <<intervals, storeVars>>
               ELSE endGame(s, FALSE, input)
  /\ UNCHANGED <<timeouts, timerIds, rounds, activated, gameLast, now>>
  /\ UNCHANGED smVars

\* computerGuess(): the guess goes to DOM.colorInput, the session loses a tip
ComputerGuess ==
  /\ IF gameState.computerTipCount <= 0 \/ ~gameState.isGameActive
     THEN UNCHANGED gameState
     ELSE gameState' = [gameState EXCEPT !.computerTipCount = @ - 1]
  /\ UNCHANGED <<timeouts, intervals, timerIds, rounds, activated, gameLast,
                 activeRound, now>>
  /\ UNCHANGED <<smVars, storeVars>>

\* adjustColor(component, value): it returns at once when no round is active,
\* and changes only DOM.colorInput and the display when one is
AdjustColor(component, value) ==
  /\ component \in {"r", "g", "b"} /\ value \in {1, -1}
  /\ UNCHANGED <<gameVars, now>>
  /\ UNCHANGED <<smVars, storeVars>>

\* the change listener of the difficulty selector (main.js 41-45; the listener
\* at storage.js 754-768 calls setDifficulty in the same way)
SelectDifficulty(level) ==
  /\ gameState' = setDifficulty(gameState, level).state
  /\ UNCHANGED <<timeouts, intervals, timerIds, rounds, activated, gameLast,
                 activeRound, now>>
  /\ UNCHANGED <<smVars, storeVars>>

\* the session states resetState() is called in: the state at load, rounds in
\* their memorize phase, active rounds and ended ones, with a score from
\* earlier rounds or none
SessionStates ==
  { s \in [ generatedColor : {Null} \cup Colors, startTime : {0, 4}, score : {0, 299},
            tipCount : 0..3, timerInterval : {0, 2}, computerTipCount : 0..3,
            isGameActive : BOOLEAN, difficulty : Levels ] :
      /\ (s.startTime = 0) = (s.timerInterval = 0)
      /\ s.isGameActive => s.startTime # 0
      /\ s.startTime # 0 => s.generatedColor # Null
      /\ s.generatedColor = Null => s = initialSession
      /\ s.tipCount <= DIFFICULTIES[s.difficulty].tipCount
      /\ s.computerTipCount <= DIFFICULTIES[s.difficulty].computerTipCount }

\* resetState(), called on its own
ResetState ==
  /\ gameLast.op = "new"
  /\ \E r \in {resetState(gameState, intervals)} :
       /\ gameState' = r.state
       /\ intervals' = r.intervals
  /\ gameLast' = [op |-> "resetState", state |-> gameState, intervals |-> intervals]
  /\ UNCHANGED <<timeouts, timerIds, rounds, activated, activeRound, now>>
  /\ UNCHANGED <<smVars, storeVars>>

\* the levels setDifficulty() is called with, one of them unknown
AnyLevels == Levels \cup {"extreme"}

\* setDifficulty(difficulty), called on its own
SetDifficulty(difficulty) ==
  /\ gameLast.op = "new"
  /\ \E d \in {setDifficulty(gameState, difficulty)} :
       /\ gameState' = d.state
       /\ gameLast' = [op |-> "setDifficulty", difficulty |-> difficulty,
                       state |-> gameState, threw |-> ~d.ok]
  /\ UNCHANGED <<timeouts, intervals, timerIds, rounds, activated, activeRound, now>>
  /\ UNCHANGED <<smVars, storeVars>>

\* the session as the player drives it
playNext ==
  \/ \E level \in PlayLevels : StartGame(level, ShownColor)
  \/ Activate
  \/ Tick
  \/ \E input \in Inputs : CheckColor(input)
  \/ ComputerGuess
  \/ \E component \in {"r"}, value \in {1, -1} : AdjustColor(component, value)
  \/ \E level \in PlayLevels : SelectDifficulty(level)

\* ------------------------------------------------------------ StateManager actions

\* the actions dispatched: the action creators' shapes, the invalid ones included
SMActions ==
  { [type |-> "RESET_STATE"],
    [type |-> "SET_GAME_FIELD", payload |-> [field |-> "score", value |-> 5]],
    [type |-> "SET_GAME_FIELD", payload |-> [field |-> "score", value |-> -1]],
    [type |-> "SET_GAME_FIELD", payload |-> [field |-> "difficulty", value |-> "extreme"]],
    [type |-> "SET_GAME_FIELD"],
    [type |-> "UPDATE_SCORE", payload |-> [delta |-> 10]],
    [type |-> "START_GAME",
     payload |-> [color |-> "#A1B2C3", tipCount |-> 2, computerTipCount |-> 2]],
    [type |-> "END_GAME", payload |-> [won |-> TRUE]],
    [type |-> "SET_UI_FIELD", payload |-> [field |-> "feedback.message", value |-> "hi"]],
    [type |-> "SET_UI_FIELD", payload |-> [field |-> "modal.title", value |-> "x"]],
    [type |-> "SET_USER_PREFERENCE", payload |-> [key |-> "colorFormat", value |-> "cmyk"]],
    [type |-> "CUSTOM"],
    [payload |-> [delta |-> 1]] }

SubPaths == {"*", "game", "game.score"}

Behaviours == {"returns", "throws"}

MiddlewareKinds == {"guard"}

\* after construction (the INIT entry is in the history)
smIdle ==
  /\ _state = _addToHistory(initialState, [type |-> "INIT"], 0).state
  /\ _stateRef = 0
  /\ _subscribers = <<>>
  /\ _middlewares = <<>>
  /\ _isReplaying = FALSE
  /\ smOps = 0
  /\ smLast = [op |-> "new"]
  /\ smThrew = FALSE
  /\ smPrev = initialState
  /\ smPrevRef = 0
  /\ smCalls = <<>>
  /\ held = <<>>

smInit == smIdle /\ now = 0

\* a dispatch takes one tick of the clock
Dispatch(action) ==
  /\ smOps < MaxOps
  /\ LET o == dispatch(action, 1)
     IN  /\ _state' = o.state
         /\ _stateRef' = o.ref
         /\ smThrew' = o.threw
         /\ smCalls' = o.calls
  /\ smPrev' = _state
  /\ smPrevRef' = _stateRef
  /\ smLast' = [op |-> "dispatch", action |-> action]
  /\ now' = now + 1
  /\ smOps' = smOps + 1
  /\ UNCHANGED <<_subscribers, _middlewares, _isReplaying, held>>
  /\ UNCHANGED <<storeVars, gameVars>>

TimeTravel(index) ==
  /\ smOps < MaxOps
  /\ LET o == timeTravel(index)
     IN  /\ _state' = o.state
         /\ _stateRef' = o.ref
         /\ smThrew' = o.threw
         /\ smCalls' = o.calls
         /\ _isReplaying' = o.replaying
  /\ smPrev' = _state
  /\ smPrevRef' = _stateRef
  /\ smLast' = [op |-> "timeTravel", index |-> index]
  /\ smOps' = smOps + 1
  /\ UNCHANGED <<_subscribers, _middlewares, now, held>>
  /\ UNCHANGED <<storeVars, gameVars>>

\* the documents handed to importState: an export of the current state, an
\* export with the history section cut out, one whose history has lost its
\* states list, one with a negative score, and text that does not parse
ImportTexts ==
  { exportState(now),
    [valid |-> TRUE,
     value |-> [k \in requiredFields \ {"history"} |-> _state[k]]],
    [valid |-> TRUE,
     value |-> [_state EXCEPT !.history = [currentIndex |-> -1, maxHistory |-> maxHistory]]],
    [valid |-> TRUE, value |-> [_state EXCEPT !.game.score = -1]],
    [valid |-> FALSE] }

ImportState(stateJson) ==
  /\ smOps < MaxOps
  /\ LET o == importState(stateJson)
     IN  /\ _state' = o.state
         /\ _stateRef' = o.ref
         /\ smThrew' = o.threw
  /\ smCalls' = <<>>
  /\ smPrev' = _state
  /\ smPrevRef' = _stateRef
  /\ smLast' = [op |-> "importState"]
  /\ smOps' = smOps + 1
  /\ UNCHANGED <<_subscribers, _middlewares, _isReplaying, now, held>>
  /\ UNCHANGED <<storeVars, gameVars>>

\* StateManager.subscribe(path, callback): the id is the Symbol of the subscription
Subscribe(path, behaviour) ==
  /\ Len(Flatten(_subscribers)) < MaxSubs
  /\ LET id == Len(Flatten(_subscribers)) + 1
         cb == [id |-> id, behaviour |-> behaviour]
         at == {i \in 1..Len(_subscribers) : _subscribers[i].path = path}
     IN  _subscribers' =
           IF at = {}
           THEN Append(_subscribers, [path |-> path, subs |-> <<cb>>])
           ELSE [i \in 1..Len(_subscribers) |->
                   IF i \in at
                   THEN [_subscribers[i] EXCEPT !.subs = Append(@, cb)]
                   ELSE _subscribers[i]]
  /\ smLast' = [op |-> "subscribe"]
  /\ smThrew' = FALSE
  /\ smCalls' = <<>>
  /\ smPrev' = _state
  /\ smPrevRef' = _stateRef
  /\ UNCHANGED <<_state, _stateRef, _middlewares, _isReplaying, now, smOps, held>>
  /\ UNCHANGED <<storeVars, gameVars>>

\* StateManager.addMiddleware(middleware)
AddMiddleware(kind) ==
  /\ Len(_middlewares) < MaxMiddlewares
  /\ _middlewares' = Append(_middlewares, kind)
  /\ smLast' = [op |-> "addMiddleware"]
  /\ smThrew' = FALSE
  /\ smCalls' = <<>>
  /\ smPrev' = _state
  /\ smPrevRef' = _stateRef
  /\ UNCHANGED <<_state, _stateRef, _subscribers, _isReplaying, now, smOps, held>>
  /\ UNCHANGED <<storeVars, gameVars>>

\* the actions dispatched where the history is under study
HistActions ==
  { a \in SMActions :
      \/ ~Has(a, "type")
      \/ a.type \in {"RESET_STATE", "UPDATE_SCORE", "CUSTOM"}
      \/ a.type = "SET_GAME_FIELD" /\ Has(a, "payload") /\ a.payload.field = "score" }

\* the StateManager's history: dispatch, timeTravel, importState
histNext ==
  \/ \E action \in HistActions : Dispatch(action)
  \/ \E index \in -1..maxHistory : TimeTravel(index)
  \/ \E stateJson \in ImportTexts : ImportState(stateJson)

InitHist == smInit /\ storeIdle /\ gameIdle

SpecHist == InitHist /\ [][histNext]_vars

\* the actions of a round: its start, its end, and what is dispatched in between
RoundActions ==
  { a \in SMActions :
      /\ Has(a, "type")
      /\ a.type \in {"START_GAME", "END_GAME", "UPDATE_SCORE", "SET_USER_PREFERENCE", "CUSTOM"} }

\* the StateManager's rounds
roundsNext == \E action \in RoundActions : Dispatch(action)

InitRounds == smInit /\ storeIdle /\ gameIdle

SpecRounds == InitRounds /\ [][roundsNext]_vars

\* the actions dispatched where the notifications are under study
SubActions ==
  { a \in SMActions :
      \/ ~Has(a, "type")
      \/ a.type \in {"UPDATE_SCORE", "SET_UI_FIELD"}
      \/ a.type = "SET_GAME_FIELD" /\ Has(a, "payload") }

\* the StateManager with subscribers and middleware
subsNext ==
  \/ \E action \in SubActions : smOps < MaxNotifyOps /\ Dispatch(action)
  \/ \E index \in {-1, 0, maxHistory} : smOps < MaxNotifyOps /\ TimeTravel(index)
  \/ \E path \in SubPaths, behaviour \in Behaviours : Subscribe(path, behaviour)
  \/ \E kind \in MiddlewareKinds : AddMiddleware(kind)

InitSubs == smInit /\ storeIdle /\ gameIdle

SpecSubs == InitSubs /\ [][subsNext]_vars

\* every operation that replaces the current snapshot, with subscribers that
\* return
announceNext ==
  \/ \E action \in SubActions : Dispatch(action)
  \/ \E index \in {0, 1} : TimeTravel(index)
  \/ \E stateJson \in ImportTexts : ImportState(stateJson)
  \/ \E path \in {"*", "game.score"} : Subscribe(path, "returns")

SpecAnnounce == InitSubs /\ [][announceNext]_vars

\* a dispatch on a manager whose callbacks may dispatch themselves
DispatchReentrant(action) ==
  /\ smOps < MaxNotifyOps
  /\ LET o == dispatchIn([state |-> _state, ref |-> _stateRef], action, 1, now)
     IN  /\ _state' = o.store.state
         /\ _stateRef' = o.store.ref
         /\ smThrew' = o.threw
         /\ smCalls' = o.calls
  /\ smPrev' = _state
  /\ smPrevRef' = _stateRef
  /\ smLast' = [op |-> "dispatch", action |-> action]
  /\ now' = now + 1
  /\ smOps' = smOps + 1
  /\ UNCHANGED <<_subscribers, _middlewares, _isReplaying, held>>
  /\ UNCHANGED <<storeVars, gameVars>>

\* the StateManager with callbacks that dispatch
reentrantNext ==
  \/ \E action \in SubActions : DispatchReentrant(action)
  \/ \E path \in {"*", "game.score"}, behaviour \in {"returns", "dispatches"} :
       Subscribe(path, behaviour)

SpecReentrant == InitSubs /\ [][reentrantNext]_vars

\* the identity of the next clone getState makes: the object trees of the
\* manager are numbered from 0 up, the clones from -1 down
NextClone == -(Len(held) + 1)

\* getState(), the caller keeping what it returns
GetState ==
  /\ Len(held) < MaxHeld
  /\ held' = Append(held, getState(_state, _stateRef, NextClone))
  /\ smLast' = [op |-> "getState"]
  /\ smThrew' = FALSE
  /\ smCalls' = <<>>
  /\ smPrev' = _state
  /\ smPrevRef' = _stateRef
  /\ UNCHANGED <<_state, _stateRef, _subscribers, _middlewares, _isReplaying, now, smOps>>
  /\ UNCHANGED <<storeVars, gameVars>>

\* dispatch(action), the caller keeping the snapshot it returns (return
\* this.getState(), reached when nothing threw)
DispatchAndHold(action) ==
  /\ smOps < MaxNotifyOps
  /\ Len(held) < MaxHeld
  /\ LET o == dispatch(action, 1)
     IN  /\ _state' = o.state
         /\ _stateRef' = o.ref
         /\ smThrew' = o.threw
         /\ smCalls' = o.calls
         /\ held' = IF o.threw THEN held
                    ELSE Append(held, getState(o.state, o.ref, NextClone))
  /\ smPrev' = _state
  /\ smPrevRef' = _stateRef
  /\ smLast' = [op |-> "dispatch", action |-> action]
  /\ now' = now + 1
  /\ smOps' = smOps + 1
  /\ UNCHANGED <<_subscribers, _middlewares, _isReplaying>>
  /\ UNCHANGED <<storeVars, gameVars>>

\* a caller assigns snapshot.game.score = 99 on the i-th snapshot it keeps: on
\* a frozen object the assignment changes nothing (it throws a TypeError in
\* strict code); otherwise it changes the object, for every holder of it
WriteThrough(i) ==
  /\ i \in 1..Len(held)
  /\ IF held[i].frozen
     THEN UNCHANGED <<_state, held>>
     ELSE /\ held' = [j \in 1..Len(held) |->
                        IF held[j].ref = held[i].ref
                        THEN [held[j] EXCEPT !.value.game.score = 99] ELSE held[j]]
          /\ _state' = IF _stateRef = held[i].ref
                       THEN [_state EXCEPT !.game.score = 99] ELSE _state
  /\ smLast' = [op |-> "write", index |-> i]
  /\ smThrew' = held[i].frozen
  /\ smCalls' = <<>>
  /\ smPrev' = _state
  /\ smPrevRef' = _stateRef
  /\ UNCHANGED <<_stateRef, _subscribers, _middlewares, _isReplaying, now, smOps>>
  /\ UNCHANGED <<storeVars, gameVars>>

\* the actions dispatched where the returned snapshots are under study
SnapshotActions ==
  { a \in SMActions : Has(a, "type") /\ a.type \in {"RESET_STATE", "UPDATE_SCORE"} }

\* callers keep snapshots while the manager goes on
snapshotsNext ==
  \/ GetState
  \/ \E action \in SnapshotActions : DispatchAndHold(action)
  \/ \E action \in SnapshotActions : smOps < MaxNotifyOps /\ Dispatch(action)
  \/ \E index \in {0, 1} : smOps < MaxNotifyOps /\ TimeTravel(index)
  \/ \E stateJson \in ImportTexts : smOps < MaxNotifyOps /\ ImportState(stateJson)
  \/ \E i \in 1..MaxHeld : WriteThrough(i)

SpecSnapshots == InitHist /\ [][snapshotsNext]_vars

\* the statistics-writing operations of the StorageManager
statsNext ==
  \/ \E gameResult \in GameResults,
        rejects \in SUBSET {STORAGE_KEYS.GAME_STATISTICS, STORAGE_KEYS.HIGH_SCORES} :
       RecordGame(gameResult, rejects)
  \/ \E updates \in StatisticsUpdates, rejects \in SUBSET {STORAGE_KEYS.GAME_STATISTICS} :
       UpdateGameStatistics(updates, rejects)

\* the operations that write the high-score board
scoresNext ==
  \/ \E scoreData \in ScoreData, rejects \in SUBSET {STORAGE_KEYS.HIGH_SCORES} :
       AddHighScore(scoreData, rejects)
  \/ \E gameResult \in GameResults : RecordGame(gameResult, {})

InitStore == smIdle /\ storeInit /\ gameIdle

SpecStore == InitStore /\ [][storeNext]_vars

SpecListeners == InitStore /\ [][listenersNext]_vars

SpecStats == InitStore /\ [][statsNext]_vars

SpecScores == InitStore /\ [][scoresNext]_vars

\* the StorageManager as its constructor finds the backend
InitMigrate ==
  /\ smIdle /\ gameIdle
  /\ isSupported \in BOOLEAN
  /\ localStorage \in StoredBackends
  /\ cache = <<>>
  /\ listeners = <<>>
  /\ unsubscribers = <<>>
  /\ DEFAULTS = [GAME_STATISTICS |-> DEFAULT_GAME_STATISTICS,
                 HIGH_SCORES |-> DEFAULT_HIGH_SCORES]
  /\ aliased = {}
  /\ storeOps = 0
  /\ stLast = [op |-> "new"]
  /\ stThrew = FALSE
  /\ stPrev = [cache |-> <<>>, localStorage |-> localStorage]
  /\ stCalls = <<>>
  /\ now = 2

migrateNext ==
  \E rejects \in {{}, {STORAGE_KEYS.USER_PREFERENCES}} : MigrateData(rejects)

SpecMigrate == InitMigrate /\ [][migrateNext]_vars

\* the backends an import finds: the versioned keys stored at the current
\* version, the preferences possibly as a text that does not parse
ImportBackends ==
  { backend \in StoredBackends :
      \A k \in DOMAIN backend : backend[k].valid => ~needsMigration(backend[k].value) }

InitImport ==
  /\ smIdle /\ gameIdle
  /\ isSupported \in BOOLEAN
  /\ localStorage \in ImportBackends
  /\ cache = <<>>
  /\ listeners = <<>>
  /\ unsubscribers = <<>>
  /\ DEFAULTS = [GAME_STATISTICS |-> DEFAULT_GAME_STATISTICS,
                 HIGH_SCORES |-> DEFAULT_HIGH_SCORES]
  /\ aliased = {}
  /\ storeOps = 0
  /\ stLast = [op |-> "new"]
  /\ stThrew = FALSE
  /\ stPrev = [cache |-> <<>>, localStorage |-> localStorage]
  /\ stCalls = <<>>
  /\ now = 2

importNext ==
  \/ \E data \in Bundles, merge \in BOOLEAN, rejects \in {{}, {STORAGE_KEYS.HIGH_SCORES}} :
       ImportData(data, merge, rejects)
  \/ \E updates \in PreferenceUpdates, rejects \in {{}, {STORAGE_KEYS.USER_PREFERENCES}} :
       UpdateUserPreferences(updates, rejects)

SpecImport == InitImport /\ [][importNext]_vars

\* a fresh store: nothing stored
InitDisplay == smIdle /\ gameIdle /\ storeInit /\ localStorage = <<>>

\* rounds are recorded and the statistics display is refreshed
displayNext ==
  \/ \E gameResult \in GameResults : RecordGame(gameResult, {})
  \/ UpdateStatistics
  \/ \E key \in WatchedKeys, cb \in Callbacks : StoreSubscribe(key, cb)

SpecDisplay == InitDisplay /\ [][displayNext]_vars

\* games and scores are recorded and the store is cleared
clearNext ==
  \/ \E gameResult \in GameResults : RecordGame(gameResult, {})
  \/ \E scoreData \in ScoreData : AddHighScore(scoreData, {})
  \/ Clear

SpecClear == InitStore /\ [][clearNext]_vars

\* the actions dispatched where the isolation of callbacks is under study
IsolationActions ==
  { a \in SMActions : Has(a, "type") /\ a.type \in {"UPDATE_SCORE", "SET_UI_FIELD"}
                      /\ a.payload # [field |-> "modal.title", value |-> "x"] }

\* the StorageManager has not been used yet
StoreUnused == storeOps = 0 /\ listeners = <<>>

\* both stores in one run: the StateManager is used first, the StorageManager
\* after it (the two share no state)
isolationNext ==
  \/ \E action \in IsolationActions :
       StoreUnused /\ smOps < MaxNotifyOps /\ Dispatch(action)
  \/ StoreUnused /\ smOps < MaxNotifyOps /\ TimeTravel(0)
  \/ \E behaviour \in Behaviours : StoreUnused /\ Subscribe("*", behaviour)
  \/ Set(CURRENT_DIFFICULTY, "easy", {})
  \/ Remove(CURRENT_DIFFICULTY)
  \/ \E cb \in Callbacks : StoreSubscribe(CURRENT_DIFFICULTY, cb)

InitIsolation == smInit /\ storeIdle /\ gameIdle

SpecIsolation == InitIsolation /\ [][isolationNext]_vars

InitGame == smIdle /\ storeIdle /\ gameInit

SpecGame == InitGame /\ [][gameNext]_vars

\* the scheduler runs a callback that is due, and time passes
SpecGameFair == SpecGame /\ WF_vars(Activate) /\ WF_vars(Tick)

InitPlay == smIdle /\ storeIdle /\ gameInit

\* a session in any of its states, with its tick interval running or cleared
\* and an interval an earlier round may have left running
InitReset ==
  /\ smIdle /\ storeIdle
  /\ gameState \in SessionStates
  /\ intervals \in { live \in SUBSET {1, 2} : gameState.isGameActive => 2 \in live }
  /\ timeouts = <<>>
  /\ timerIds = 2
  /\ rounds = 0
  /\ activated = <<>>
  /\ gameLast = [op |-> "new"]
  /\ activeRound = [level |-> Null, wrong |-> 0]
  /\ now = 5

SpecReset == InitReset /\ [][ResetState]_vars

difficultyNext == \E difficulty \in AnyLevels : SetDifficulty(difficulty)

SpecDifficulty == InitReset /\ [][difficultyNext]_vars

SpecPlay == InitPlay /\ [][playNext]_vars

\* ------------------------------------------------------------ claims: StateManager

LastDispatched == smLast.op = "dispatch"

Committed == _stateRef # smPrevRef

\* the cases C1 names: a middleware throws, the reducer throws, validateState fails
MustFail(action) ==
  /\ Has(action, "type")
  /\ \/ action.type = "UPDATE_SCORE" /\ \E i \in 1..Len(_middlewares) : _middlewares[i] = "guard"
     \/ action.type \in {"SET_GAME_FIELD", "SET_UI_FIELD"} /\ ~Has(action, "payload")
     \/ action.type = "SET_UI_FIELD" /\ Has(action, "payload")
          /\ action.payload.field = "modal.title"
     \/ action.type = "SET_GAME_FIELD" /\ Has(action, "payload")
          /\ \/ action.payload.field = "score" /\ action.payload.value < 0
             \/ action.payload.field = "difficulty"
                  /\ action.payload.value \notin {"easy", "medium", "hard"}

\* C1: a dispatch whose middleware or reducer throws, or whose result fails
\* validateState, throws, and a dispatch that throws leaves the snapshot (its
\* history included) as it was and invokes no subscriber.
C1_FailedDispatchHasNoEffect ==
  LastDispatched =>
    /\ MustFail(smLast.action) => smThrew
    /\ smThrew => _state = smPrev /\ _stateRef = smPrevRef /\ smCalls = <<>>

\* C1 witness: a negative score was rejected on a store that has subscribers
\* and a history of two entries
C1_Witness ==
  /\ LastDispatched /\ smThrew
  /\ smLast.action = [type |-> "SET_GAME_FIELD", payload |-> [field |-> "score", value |-> -1]]
  /\ _subscribers # <<>>
  /\ Len(_state.history.states) = 2

WellFormedHistory == Has(_state.history, "states")

\* C4: the history never holds more than maxHistory entries, and a dispatch
\* that appends to a full history evicts exactly the oldest entry: the entries
\* before the new one are the former ones without the first, in order.
C4_HistoryBounded ==
  WellFormedHistory =>
    /\ Len(_state.history.states) <= _state.history.maxHistory
    /\ ( /\ LastDispatched /\ ~smThrew
         /\ smLast.action.type # "RESET_STATE"
         /\ Len(smPrev.history.states) = smPrev.history.maxHistory
         /\ smPrev.history.currentIndex = Len(smPrev.history.states) - 1 )
       => /\ Len(_state.history.states) = _state.history.maxHistory
          /\ SubSeq(_state.history.states, 1, Len(_state.history.states) - 1)
               = Tail(smPrev.history.states)

\* C4 witness: a successful dispatch on a full history
C4_Witness ==
  /\ LastDispatched /\ ~smThrew
  /\ smLast.action.type # "RESET_STATE"
  /\ Has(smPrev.history, "states")
  /\ Len(smPrev.history.states) = smPrev.history.maxHistory
  /\ smPrev.history.currentIndex = Len(smPrev.history.states) - 1
  /\ _state.history.states[1] = smPrev.history.states[2]

\* C5: after a successful dispatch outside time travel, currentIndex is the
\* index of the last history entry.
C5_CurrentIndexIsLast ==
  (LastDispatched /\ ~smThrew /\ ~_isReplaying) =>
    _state.history.currentIndex = Len(_state.history.states) - 1

\* C5 witness: a successful dispatch from a time-travelled snapshot (whose
\* currentIndex was not that of its last entry)
C5_Witness ==
  /\ LastDispatched /\ ~smThrew
  /\ Has(smPrev.history, "states")
  /\ smPrev.history.currentIndex # Len(smPrev.history.states) - 1
  /\ _state.history.currentIndex = Len(_state.history.states) - 1

LastEntry == _state.history.states[Len(_state.history.states)]

\* C6 as stated: the entry appended by a successful dispatch holds the
\* snapshot that was current before the dispatch.
C6_ArchivesPreviousSnapshot ==
  (LastDispatched /\ ~smThrew) =>
    /\ LastEntry.state.game = smPrev.game
    /\ LastEntry.state.ui = smPrev.ui
    /\ LastEntry.state.user = smPrev.user

\* C6 amended: the entry appended by a successful dispatch holds the reducer's
\* result (the new snapshot as the reducer returned it, that is with the
\* history it had before the entry was appended), together with the action;
\* the reducer's result is the current snapshot, but for the history update
\* and performance.stateUpdateTime.
C6_ArchivesReducerResult ==
  (LastDispatched /\ ~smThrew) =>
    LET r == _reducer(smPrev, smLast.action, now - 1).state
    IN  /\ LastEntry.state = r
        /\ LastEntry.action = smLast.action
        /\ _state.game = r.game /\ _state.ui = r.ui /\ _state.user = r.user
        /\ _state.system.lastUpdated = r.system.lastUpdated

\* C6 witness: a successful dispatch that changed the game section
C6_Witness ==
  /\ LastDispatched /\ ~smThrew
  /\ _state.game # smPrev.game
  /\ LastEntry.state.game = _state.game

LastTravelled == smLast.op = "timeTravel" /\ ~smThrew

\* C7 as stated: after timeTravel(i) the current snapshot equals, in all its
\* sections, the snapshot stored in the history entry i.
C7_TravelRestoresEntry ==
  LastTravelled => _state = smPrev.history.states[smLast.index + 1].state

\* C7 amended: after timeTravel(i) the current snapshot equals the snapshot
\* stored in entry i in its game, ui, user and system sections and in
\* history.states and history.maxHistory; its history.currentIndex is i.
C7_TravelRestoresEntryButIndex ==
  LastTravelled =>
    _state = [smPrev.history.states[smLast.index + 1].state
                EXCEPT !.history.currentIndex = smLast.index]

\* C7 witness: a time travel to an earlier entry that changed the game section
C7_Witness ==
  /\ LastTravelled
  /\ smLast.index < Len(smPrev.history.states) - 1
  /\ _state.game # smPrev.game

\* C8 as stated: a subscriber of a path other than "*" is invoked only if the
\* value at its path changed in the transition.
C8_PathSubscriberOnlyOnChange ==
  \A i \in 1..Len(smCalls) :
    smCalls[i].path # "*" =>
      _getNestedValue(smPrev, split(smCalls[i].path))
        # _getNestedValue(_state, split(smCalls[i].path))

\* C15: while no round is active (game.isActive false, before the first
\* START_GAME or after END_GAME) a dispatched action is accepted but advances
\* neither the score nor the tip counts; UPDATE_SCORE with a positive delta
\* leaves game.score unchanged.
C15_InactiveRoundKeepsScore ==
  ( /\ LastDispatched
    /\ ~smPrev.game.isActive
    /\ smLast.action.type \in {"UPDATE_SCORE", "END_GAME", "SET_USER_PREFERENCE", "CUSTOM"} )
  => /\ _state.game.score = smPrev.game.score
     /\ _state.game.tipCount = smPrev.game.tipCount
     /\ _state.game.computerTipCount = smPrev.game.computerTipCount

\* C25: an importState that fails leaves the current snapshot, and with it the
\* history, as it was: for text that does not parse, a missing section, an
\* invalid game field and a history without a states list.
C25_FailedImportKeepsState ==
  (smLast.op = "importState" /\ smThrew) => (_state = smPrev /\ _stateRef = smPrevRef)

\* the last operation was a timeTravel to an index outside the history
TravelledOutOfRange ==
  /\ smLast.op = "timeTravel"
  /\ IF Has(smPrev.history, "states")
     THEN smLast.index < 0 \/ smLast.index >= Len(smPrev.history.states)
     ELSE TRUE

\* C26: timeTravel(index) with index < 0 or index >= the length of the history
\* throws, leaves the snapshot and its history as they were and calls no
\* subscriber.
C26_OutOfRangeTravelRejected ==
  TravelledOutOfRange =>
    /\ smThrew
    /\ _state = smPrev
    /\ _stateRef = smPrevRef
    /\ smCalls = <<>>
    /\ ~_isReplaying

\* an index past the end was refused after a dispatch had changed the score,
\* with a subscriber to everything registered
C26_Witness ==
  /\ TravelledOutOfRange
  /\ smLast.index = maxHistory
  /\ smThrew
  /\ _state.game.score > 0
  /\ Len(_state.history.states) = 2
  /\ \E i \in 1..Len(_subscribers) : _subscribers[i].path = "*"

\* C27: the history is append-only: a dispatch, of RESET_STATE too, leaves the
\* recorded entries in place and adds one at the end, except that the oldest
\* entry goes when the history is longer than maxHistory.
C27_HistoryAppendOnly ==
  (smLast.op = "dispatch" /\ Has(smPrev.history, "states")) =>
    /\ Has(_state.history, "states")
    /\ \E old \in {smPrev.history.states}, new \in {_state.history.states} :
         \/ new = old
         \/ new # <<>> /\ SubSeq(new, 1, Len(new) - 1) = old
         \/ /\ new # <<>>
            /\ Len(old) = smPrev.history.maxHistory
            /\ SubSeq(new, 1, Len(new) - 1) = Tail(old)

\* the snapshots a callback was handed by the last operation, as commit numbers
Delivered(id) ==
  LET mine == SelectSeq(smCalls, LAMBDA c : c.id = id)
  IN  [i \in 1..Len(mine) |-> mine[i].ref]

\* C28: dispatches are not interleaved as subscribers see them: also with a
\* dispatch from inside a callback, each "*" subscriber is handed the committed
\* snapshots in commit order, and the last one it is handed is the current
\* snapshot of the store.
C28_DeliveredInCommitOrder ==
  smLast.op = "dispatch" =>
    \A c \in {smCalls[i] : i \in 1..Len(smCalls)} :
      c.path = "*" =>
        \E refs \in {Delivered(c.id)} :
          /\ \A i, j \in 1..Len(refs) : i < j => refs[i] < refs[j]
          /\ refs[Len(refs)] = _stateRef

\* C31: a snapshot getState() or dispatch() returned never changes after it
\* was returned: no later dispatch, reset, timeTravel or importState alters
\* it, it is no object of the manager's current state, and a caller's write
\* through it leaves the manager's state as it was.
C31_SnapshotsImmutable ==
  /\ \A i \in 1..Len(held) :
       /\ held[i].value = held[i].was
       /\ held[i].ref # _stateRef
  /\ smLast.op = "write" => (_state = smPrev /\ _stateRef = smPrevRef)

\* a caller wrote through the snapshot it took before a dispatch changed the
\* score: the snapshot still shows the score it was taken with
C31_Witness ==
  /\ smLast.op = "write"
  /\ smLast.index = 1
  /\ Len(held) = 2
  /\ held[1].value.game.score = 0
  /\ held[2].value.game.score = 10
  /\ _state.game.score = 10

\* C37: timeTravel is idempotent and keeps the history reachable: after
\* timeTravel(i) with an index valid before the call, a second timeTravel(i)
\* succeeds and leaves the same snapshot, and every index that was valid
\* before the call is still accepted.
C37_TimeTravelIdempotent ==
  ( /\ smLast.op = "timeTravel"
    /\ Has(smPrev.history, "states")
    /\ smLast.index >= 0 /\ smLast.index < Len(smPrev.history.states) ) =>
    /\ ~smThrew
    /\ ~timeTravel(smLast.index).threw
    /\ timeTravel(smLast.index).state = _state
    /\ Has(_state.history, "states")
    /\ Len(_state.history.states) >= Len(smPrev.history.states)

\* C39: every replacement of the current snapshot is announced: when a
\* dispatch, a timeTravel or an importState has changed what getState()
\* returns, every "*" subscriber was invoked once for that change.
C39_ReplacementAnnounced ==
  (smLast.op \in {"dispatch", "timeTravel", "importState"} /\ _state # smPrev) =>
    \A i \in 1..Len(_subscribers) :
      _subscribers[i].path = "*" =>
        \A j \in 1..Len(_subscribers[i].subs) :
          Len(SelectSeq(smCalls, LAMBDA c : c.id = _subscribers[i].subs[j].id)) = 1

\* ------------------------------------------------------------ claims: both stores

\* the callbacks StateManager owes a call for the last notification, in order
SMDue ==
  LET notified(group) ==
        group.path = "*" \/ differs(smPrev, smPrevRef, _state, _stateRef, group.path)
      due == Flatten(SelectSeq(_subscribers, notified))
  IN  [i \in 1..Len(due) |-> [path |-> due[i].path, id |-> due[i].id]]

\* a callback of the StateManager that throws was invoked by the last operation
SMThrowerCalled ==
  /\ smLast.op \in {"dispatch", "timeTravel"}
  /\ \E i \in 1..Len(smCalls) :
       \E c \in {Flatten(_subscribers)[j] : j \in 1..Len(Flatten(_subscribers))} :
          c.id = smCalls[i].id /\ c.behaviour = "throws"

\* a callback of the StorageManager that throws was invoked by the last set/remove
StoreThrowerCalled ==
  /\ stLast.op \in {"set", "remove"}
  /\ \E i \in 1..Len(stCalls) : stCalls[i].callback = "throws"

C3_Observations ==
  {[stats |-> stCalls[i].stats, scores |-> stCalls[i].scores] : i \in 1..Len(stCalls)}
  \cup {[stats |-> getGameStatistics(Store).value,
         scores |-> getHighScores(Store).value.scores]}

\* C3: recordGame of a won game with positive score is one atomic visible
\* transition: no subscriber invoked during recordGame, and nobody after it
\* ended (normally or with an exception), gets from the store statistics that
\* count the game while the high-score board lacks the game's entry. (The
\* game recorded at clock t is the one whose statistics have lastPlayed = t
\* and whose entry has id = t; the board is looked at while it has room.)
C3_RecordGameAtomic ==
  (/\ stLast.op = "recordGame"
   /\ stLast.gameResult.won
   /\ stLast.gameResult.score > 0) =>
     \A obs \in C3_Observations :
        (obs.stats.lastPlayed = stLast.t /\ Len(obs.scores) < maxScores) =>
           \E i \in 1..Len(obs.scores) : obs.scores[i].id = stLast.t

\* the last operation was a set whose backend write was rejected
SetRejected ==
  /\ stLast.op = "set"
  /\ isSupported
  /\ stLast.key \in stLast.rejects

\* C10: when the backend rejects the write of set(key, v), set raises an error
\* to its caller, the cache entry for key keeps the value it had before the
\* call, and no subscriber of key is invoked.
C10_RejectedSetThrows ==
  SetRejected =>
     /\ stThrew
     /\ Has(cache, stLast.key) = Has(stPrev.cache, stLast.key)
     /\ Has(cache, stLast.key) => cache[stLast.key] = stPrev.cache[stLast.key]
     /\ stCalls = <<>>

\* a rejected set of a key that has a cached value and a subscriber
C10_Witness ==
  /\ SetRejected
  /\ Has(stPrev.cache, stLast.key)
  /\ stPrev.cache[stLast.key] # stLast.value
  /\ Has(listeners, stLast.key)


\* the last operation was a set or a remove that the backend carried out
WriteSucceeded ==
  /\ isSupported
  /\ \/ stLast.op = "set" /\ stLast.key \notin stLast.rejects
     \/ stLast.op = "remove"

\* C11: on every successful set(key, v) each subscriber of key is invoked once
\* with (v, key), and on every successful remove(key) with (null, key); at the
\* time of the call the backend and the cache already hold v (after a remove,
\* neither holds the key), and get(key) inside the callback returns v (after a
\* remove, the default).
C11_NotifiesAfterCommit ==
  WriteSucceeded =>
    /\ [i \in 1..Len(stCalls) |-> stCalls[i].callback]
         = IF Has(listeners, stLast.key) THEN listeners[stLast.key] ELSE <<>>
    /\ \A i \in 1..Len(stCalls) :
         /\ stCalls[i].key = stLast.key
         /\ IF stLast.op = "set"
            THEN /\ stCalls[i].value = stLast.value
                 /\ stCalls[i].inBackend /\ stCalls[i].inCache
                 /\ stCalls[i].got = stLast.value
                 /\ localStorage[stLast.key] = stringify(stLast.value)
            ELSE /\ stCalls[i].value = Null
                 /\ ~stCalls[i].inBackend /\ ~stCalls[i].inCache
                 /\ stCalls[i].got = Null

\* C11 witness: a set of a key that held another value notified two subscribers
C11_Witness ==
  /\ WriteSucceeded /\ stLast.op = "set"
  /\ Len(stCalls) = 2
  /\ Has(stPrev.cache, stLast.key)
  /\ stPrev.cache[stLast.key] # stLast.value

\* the statistics documents the store holds: in the backend, in the cache, and
\* as getGameStatistics returns them
StoredStatistics ==
  LET key == STORAGE_KEYS.GAME_STATISTICS
  IN  {getGameStatistics(Store).value}
      \cup (IF Has(cache, key) THEN {cache[key]} ELSE {})
      \cup (IF Has(localStorage, key) THEN {localStorage[key].value} ELSE {})

\* C12: after any sequence of recordGame calls the statistics satisfy
\* gamesWon + gamesLost = totalGames and the accuracy history holds at most
\* MaxAccuracyHistory values; a recordGame with an accuracy value on a full
\* history drops the oldest value and appends the new one.
C12_StatisticsInvariant ==
  /\ \A stats \in StoredStatistics :
       /\ stats.gamesWon + stats.gamesLost = stats.totalGames
       /\ Len(stats.colorAccuracyHistory) <= MaxAccuracyHistory
  /\ ( /\ stLast.op = "recordGame"
       /\ Has(stLast.gameResult, "accuracy")
       /\ Len(stLast.read.colorAccuracyHistory) = MaxAccuracyHistory
       /\ isSupported /\ ~stThrew )
     => cache[STORAGE_KEYS.GAME_STATISTICS].colorAccuracyHistory
          = Append(Tail(stLast.read.colorAccuracyHistory), stLast.gameResult.accuracy)

\* C12 witness: a won game with an accuracy value recorded on a full history
C12_Witness ==
  /\ stLast.op = "recordGame" /\ isSupported /\ ~stThrew
  /\ stLast.gameResult.won
  /\ Has(stLast.gameResult, "accuracy")
  /\ Len(stLast.read.colorAccuracyHistory) = MaxAccuracyHistory
  /\ stLast.read.totalGames > 0

\* C13: after any sequence of recordGame and updateGameStatistics calls the
\* stored averageScore is totalScore / gamesWon rounded to the nearest integer,
\* and 0 when gamesWon is 0.
C13_AverageScoreDerived ==
  \A stats \in StoredStatistics :
     stats.averageScore =
       IF stats.gamesWon > 0 THEN RoundDiv(stats.totalScore, stats.gamesWon) ELSE 0

\* the high-score boards the store holds: in the backend, in the cache, and as
\* getHighScores returns them
StoredHighScores ==
  LET key == STORAGE_KEYS.HIGH_SCORES
  IN  {getHighScores(Store).value}
      \cup (IF Has(cache, key) THEN {cache[key]} ELSE {})
      \cup (IF Has(localStorage, key) THEN {localStorage[key].value} ELSE {})

\* scores is in the order of the board: score descending, time ascending
Ranked(scores) ==
  \A i \in 1..Len(scores) - 1 : ~sortsBefore(scores[i + 1], scores[i])

\* C14: after any sequence of addHighScore calls (directly or through
\* recordGame) the board is sorted by score descending and, among equal
\* scores, by time ascending, and holds at most maxScores entries; an
\* addHighScore on a full board keeps the maxScores best-ranked entries.
C14_BoardRankedAndBounded ==
  /\ \A board \in StoredHighScores :
       /\ Ranked(board.scores)
       /\ Len(board.scores) <= board.maxScores
  /\ ( /\ stLast.op = "addHighScore" /\ isSupported /\ ~stThrew
       /\ Len(stLast.read.scores) = stLast.read.maxScores )
     => cache[STORAGE_KEYS.HIGH_SCORES].scores
          = SubSeq(sortScores(Append(stLast.read.scores,
                                     Put(stLast.scoreData, "id", stLast.t))),
                   1, stLast.read.maxScores)

\* the first migrateData, the constructor's, has run and no write was rejected
Migrated == stLast.op = "migrateData" /\ storeOps = 1 /\ stLast.rejects = {} /\ isSupported

\* the versioned keys whose stored document is older than the schema
Outdated(backend) ==
  { k \in DOMAIN backend : backend[k].valid /\ needsMigration(backend[k].value) }

StoreBefore == [Store EXCEPT !.localStorage = stPrev.localStorage, !.cache = stPrev.cache]

\* the last operation was an importData that returned, on a store with a backend
Imported == stLast.op = "importData" /\ ~stThrew /\ isSupported

\* the document the store holds for a key: the parsed text of the backend
\* (found is false for a key that is not stored or does not parse)
Stored(st, key) == getRaw(st, key)

\* C24: importData(bundle, merge): for a key of the bundle whose existing
\* document is an object, merge=true leaves a document with the bundle's value
\* for every top-level field of the bundle's document and the existing value for
\* every other field; merge=false leaves the bundle's document; the documents
\* of the keys the bundle lacks are unchanged in both modes.
C24_ImportMergesOrOverwrites ==
  Imported =>
    \A i \in 1..Len(StorageNames) :
      \E name \in {StorageNames[i]}, key \in {STORAGE_KEYS[StorageNames[i]]} :
        IF Has(stLast.data, name)
        THEN \E document \in {stLast.data[name]}, existing \in {get(StoreBefore, key, Null)} :
               /\ Stored(Store, key).found
               /\ Has(cache, key)
               /\ cache[key] = Stored(Store, key).value
               /\ \E result \in {Stored(Store, key).value} :
                    IF ~stLast.merge THEN result = document
                    ELSE IF existing.from = "default" THEN TRUE
                    ELSE /\ DOMAIN result = DOMAIN existing.value \cup DOMAIN document
                         /\ \A f \in DOMAIN document : result[f] = document[f]
                         /\ \A f \in DOMAIN existing.value \ DOMAIN document :
                              result[f] = existing.value[f]
        ELSE /\ Has(localStorage, key) = Has(stPrev.localStorage, key)
             /\ Has(localStorage, key) => localStorage[key] = stPrev.localStorage[key]
             /\ Has(cache, key) = Has(stPrev.cache, key)
             /\ Has(cache, key) => cache[key] = stPrev.cache[key]

\* a merging import of two preference fields onto stored preferences: the
\* bundle's fields are in, the stored theme is kept, the statistics are as
\* they were
C24_Witness ==
  /\ Imported
  /\ stLast.merge
  /\ stLast.data = [USER_PREFERENCES |-> [soundEnabled |-> FALSE, legacy |-> TRUE]]
  /\ Has(stPrev.localStorage, STORAGE_KEYS.USER_PREFERENCES)
  /\ stPrev.localStorage[STORAGE_KEYS.USER_PREFERENCES] = stringify(CurrentPreferences)
  /\ localStorage[STORAGE_KEYS.USER_PREFERENCES].value.legacy
  /\ ~localStorage[STORAGE_KEYS.USER_PREFERENCES].value.soundEnabled
  /\ localStorage[STORAGE_KEYS.USER_PREFERENCES].value.theme = "dark"
  /\ Has(localStorage, STORAGE_KEYS.GAME_STATISTICS)
  /\ localStorage[STORAGE_KEYS.GAME_STATISTICS] = stringify(EarlierStats)

\* the preferences document the store holds, where it holds one
StoredPreferences == Stored(Store, STORAGE_KEYS.USER_PREFERENCES)

\* C29: the closed-enum fields of the user preferences stay in their enums
\* after any updateUserPreferences and importData calls: colorFormat in
\* {hex, rgb, hsl}, theme in {light, dark, auto}, difficulty in
\* {easy, medium, hard}.
C29_PreferenceEnumsClosed ==
  StoredPreferences.found =>
    \E preferences \in {StoredPreferences.value} :
      /\ Has(preferences, "colorFormat") => preferences.colorFormat \in {"hex", "rgb", "hsl"}
      /\ Has(preferences, "theme") => preferences.theme \in {"light", "dark", "auto"}
      /\ Has(preferences, "difficulty") => preferences.difficulty \in {"easy", "medium", "hard"}

\* C30: the statistics display after N recordGame calls on a fresh store, W
\* of them wins: totalGames is N, winRate is W/N (0 when N = 0, shown as a
\* rounded percentage) and bestScore is the top entry of the high-score board.
\* In SpecDisplay storeOps counts the recordGame calls, and gamesWon of the
\* statistics document the wins.
C30_DisplayDerivedFromDocuments ==
  (stLast.op = "updateStatistics" /\ isSupported) =>
    \E N \in {storeOps}, W \in {getGameStatistics(Store).value.gamesWon},
       scores \in {getHighScores(Store).value.scores} :
      /\ stLast.display.totalGames = N
      /\ stLast.display.winRate = IF N > 0 THEN Percent(W, N) ELSE 0
      /\ stLast.display.bestScore = IF scores # <<>> THEN scores[1].score ELSE 0

\* C34: the cache is coherent with the backend after every operation: for
\* every key in the cache the cached document is what the text the backend
\* holds for the key decodes to (so that after a recordGame whose write
\* failed getGameStatistics returns the document as it was before).
C34_CacheCoherent ==
  isSupported =>
    \A key \in DOMAIN cache :
      /\ Has(localStorage, key)
      /\ localStorage[key].valid
      /\ localStorage[key].value = cache[key]

\* C35: a missing statistics or high-score document reads as the pristine
\* default: after recordGame and addHighScore calls and then clear(),
\* getGameStatistics returns a document with all counters and per-difficulty
\* counts zero, an empty accuracy history and an unset session record, and
\* getHighScores an empty board.
C35_ClearedReadsPristine ==
  stLast.op = "clear" =>
    /\ getGameStatistics(Store).value = DEFAULT_GAME_STATISTICS
    /\ getHighScores(Store).value = DEFAULT_HIGH_SCORES

\* C38: importData is all-or-nothing: when importData throws, every
\* well-known document in the store is the same as before the call.
C38_ImportAllOrNothing ==
  (stLast.op = "importData" /\ stThrew) =>
    \A name \in DOMAIN STORAGE_KEYS :
      /\ Has(localStorage, STORAGE_KEYS[name]) = Has(stPrev.localStorage, STORAGE_KEYS[name])
      /\ Has(localStorage, STORAGE_KEYS[name]) =>
           localStorage[STORAGE_KEYS[name]] = stPrev.localStorage[STORAGE_KEYS[name]]

\* C40: subscriptions of the persistence store are independent: a
\* subscription whose unsubscribe function has not been called keeps its
\* callback among the listeners of its key, and a set of the key calls it,
\* whatever other unsubscribe functions were called.
C40_SubscriptionsIndependent ==
  \A n \in 1..Len(unsubscribers) :
    ~unsubscribers[n].called =>
      \E key \in {unsubscribers[n].key}, cb \in {unsubscribers[n].callback} :
        /\ Has(listeners, key)
        /\ \E i \in 1..Len(listeners[key]) : listeners[key][i] = cb
        /\ (stLast.op = "set" /\ stLast.key = key /\ isSupported /\ ~stThrew) =>
             \E i \in 1..Len(stCalls) : stCalls[i].callback = cb

\* ------------------------------------------------------------ claims: game session

\* C2: startGame cancels any still-pending memorize-phase timer before it
\* schedules a new one: at any time at most one activation callback is pending,
\* and each started round is activated at most once.
C2_SinglePendingActivation ==
  /\ Len(timeouts) <= 1
  /\ \A i, j \in 1..Len(activated) : activated[i].round = activated[j].round => i = j

\* the current round is in its memorize phase: the activation callback its
\* startGame scheduled has not run yet
InMemorizePhase == \E i \in 1..Len(timeouts) : timeouts[i].round = rounds

\* a step of checkColor, computerGuess or adjustColor
GuessingStep ==
  \/ \E input \in Inputs : CheckColor(input)
  \/ ComputerGuess
  \/ \E component \in {"r", "g", "b"}, value \in {1, -1} : AdjustColor(component, value)

\* C16: during a round's memorize phase (from startGame until that round's own
\* activation callback runs) checkColor, adjustColor and computerGuess change
\* no session field and record no game, repeated startGame calls included.
C16_MemorizePhaseIsInert ==
  [][ (InMemorizePhase /\ GuessingStep)
      => /\ gameState' = gameState
         /\ localStorage' = localStorage
         /\ cache' = cache ]_vars

\* C17: once a round is active at difficulty d it ends after at most
\* DIFFICULTIES[d].tipCount wrong checkColor calls, whatever computerGuess,
\* adjustColor and the difficulty selector do in between: a round still active
\* has had fewer wrong guesses than that.
C17_RoundEndsWithinTips ==
  gameState.isGameActive
    => activeRound.wrong < DIFFICULTIES[activeRound.level].tipCount

\* a step of checkColor with the color shown, in an active round
WinningStep ==
  /\ gameState.isGameActive
  /\ \E input \in Inputs :
       /\ toUpperCase(userColor(input)) = gameState.generatedColor
       /\ CheckColor(input)

RoundActive ==
  /\ gameState.isGameActive
  /\ gameState.startTime # 0
  /\ gameState.timerInterval \in intervals

\* C19: after startGame, when the scheduler runs the callbacks that are due,
\* the round eventually becomes active (isGameActive true, startTime set, tick
\* interval running), also when further startGame calls arrive before the
\* first activation.
C19_EventuallyActive == (gameLast.op = "startGame") ~> RoundActive

\* a second startGame arrived before the first activation, and the round is active
C19_Witness ==
  /\ rounds = 2
  /\ Len(activated) >= 1
  /\ activated[1].round = 2
  /\ RoundActive

\* C20: from any session state resetState clears exactly the per-round fields
\* (generatedColor, startTime and timerInterval null, the interval cleared,
\* tipCount and computerTipCount 0, isGameActive false) and leaves score and
\* difficulty as they are.
C20_ResetStateFrame ==
  gameLast.op = "resetState"
    => /\ gameState = [ generatedColor |-> Null, startTime |-> 0, tipCount |-> 0,
                        timerInterval |-> 0, computerTipCount |-> 0,
                        isGameActive |-> FALSE,
                        score |-> gameLast.state.score,
                        difficulty |-> gameLast.state.difficulty ]
       /\ intervals = gameLast.intervals \ {gameLast.state.timerInterval}

\* resetState has run on an active round at hard with a score from earlier rounds
C20_Witness ==
  /\ gameLast.op = "resetState"
  /\ gameLast.state.isGameActive
  /\ gameLast.state.score > 0
  /\ gameLast.state.difficulty = "hard"
  /\ gameLast.state.timerInterval \in gameLast.intervals

C32_OneOutcomePerRound ==
  gameLast.op \in {"startGame", "activate"} => storeOps - gameLast.recorded <= 1

\* C33: the tip budgets are never negative, whatever the interleaving of
\* startGame, the activation callbacks, checkColor, computerGuess, adjustColor
\* and the difficulty selector: state.tipCount >= 0 and
\* state.computerTipCount >= 0.
C33_TipBudgetsNonNegative ==
  gameState.tipCount >= 0 /\ gameState.computerTipCount >= 0

\* C36: the score recorded for a won round is that round's award,
\* max(0, baseScore - elapsedSeconds), so that the total score the store
\* holds is the session's score
C36_RecordedScoreIsAward ==
  /\ (stLast.op = "recordGame" /\ stLast.gameResult.won) =>
       stLast.gameResult.score =
         Max(0, DIFFICULTIES[stLast.gameResult.difficulty].score
                  - stLast.gameResult.time \div 1000)
  /\ getGameStatistics(Store).value.totalScore = gameState.score

====
